---- MODULE Spec2Model ----
\* A model of goliatone/go-theme: the manifest validator, the in-memory
\* registry (Register / Get / List under one RWMutex) and the Selector.
\*
\* Go strings are sequences of one-character strings, so that TrimSpace,
\* TrimPrefix, Split and the %d scan of a version segment are computed the
\* way the code computes them.  A Go map is a record [isNil, kv]: a nil map
\* and an empty map read alike but are different values, and cloneStringMap
\* turns the first into the second.  A *Manifest is a sequence of length 0
\* (nil) or 1 (a pointer to the manifest it holds).
EXTENDS Integers, Sequences, FiniteSets, TLC

VARIABLES
    themes,     \* MemoryRegistry.themes: name -> (version -> Manifest)
    call,       \* the last call made on the registry or the selector
    ret,        \* what that call returned
    registered, \* history: <<name, version>> -> the manifest the caller last
                \* registered under that pair
    heap,       \* the objects behind the pointers and maps, by address
    held,       \* the manifest pointers the caller holds, and where from
    mutations,  \* history: the writes the caller has made through them
    mu,         \* MemoryRegistry.mu: the writer and the readers that hold it
    pc,         \* where each goroutine is in the call it is making
    lin,        \* history: the table of the Registers whose store is done,
                \* each applied whole and in the order of the stores
    window      \* history: the values of lin since each goroutine's call
                \* began

vars == <<themes, call, ret, registered, heap, held, mutations,
          mu, pc, lin, window>>

\* The registry's calls taken by value leave the heap out.
aliasVars == <<heap, held, mutations>>

\* One caller at a time leaves the lock and the goroutines out.
concVars == <<mu, pc, lin, window>>

-----------------------------------------------------------------------------
\* Strings

IsSpace(c) == c \in {" ", "\t", "\n", "\r"}

RECURSIVE TrimLeft(_)
TrimLeft(s) ==
    IF s # <<>> /\ IsSpace(Head(s)) THEN TrimLeft(Tail(s)) ELSE s

RECURSIVE TrimRight(_)
TrimRight(s) ==
    IF s # <<>> /\ IsSpace(s[Len(s)])
    THEN TrimRight(SubSeq(s, 1, Len(s) - 1))
    ELSE s

\* strings.TrimSpace
TrimSpace(s) == TrimRight(TrimLeft(s))

\* strings.TrimPrefix(s, c) for a one-character prefix c
TrimPrefix(s, c) == IF s # <<>> /\ Head(s) = c THEN Tail(s) ELSE s

\* strings.Split(s, c) for a one-character separator c
RECURSIVE Split(_, _)
Split(s, c) ==
    IF \A i \in 1..Len(s) : s[i] # c
    THEN <<s>>
    ELSE LET i == CHOOSE k \in 1..Len(s) :
                      s[k] = c /\ \A j \in 1..(k - 1) : s[j] # c
         IN  <<SubSeq(s, 1, i - 1)>> \o Split(SubSeq(s, i + 1, Len(s)), c)

\* Go's < on strings: bytewise, a proper prefix first.
CharOrder ==
    <<"\t", "\n", "\r", " ", "-", ".", "0", "1", "2", "3", "4", "5", "6", "7",
      "8", "9", "a", "b", "c", "d", "r", "v", "z">>

CharRank(c) == CHOOSE i \in 1..Len(CharOrder) : CharOrder[i] = c

RECURSIVE StrLess(_, _)
StrLess(a, b) ==
    IF b = <<>> THEN FALSE
    ELSE IF a = <<>> THEN TRUE
    ELSE IF Head(a) = Head(b) THEN StrLess(Tail(a), Tail(b))
    ELSE CharRank(Head(a)) < CharRank(Head(b))

-----------------------------------------------------------------------------
\* Version comparison

Digits == <<"0", "1", "2", "3", "4", "5", "6", "7", "8", "9">>

IsDigit(c) == \E i \in 1..10 : Digits[i] = c

DigitVal(c) == (CHOOSE i \in 1..10 : Digits[i] = c) - 1

\* The value of the longest run of digits s starts with, acc being the value
\* of the digits already read.
RECURSIVE DigitRun(_, _)
DigitRun(s, acc) ==
    IF s # <<>> /\ IsDigit(Head(s))
    THEN DigitRun(Tail(s), 10 * acc + DigitVal(Head(s)))
    ELSE acc

\* fmt.Sscanf(part, "%d", &value) with value starting at 0: blanks are
\* skipped, one sign is accepted, then the longest run of digits is read; what
\* follows the digits is left unread.  With no digit the scan fails and value
\* keeps its 0.
ScanInt(part) ==
    LET s == TrimLeft(part)
        neg == s # <<>> /\ Head(s) = "-"
        t == IF s # <<>> /\ Head(s) \in {"+", "-"} THEN Tail(s) ELSE s
    IN  IF t = <<>> \/ ~IsDigit(Head(t)) THEN 0
        ELSE IF neg THEN 0 - DigitRun(t, 0) ELSE DigitRun(t, 0)

parseVersionParts(version) ==
    IF version = <<>> THEN <<>>
    ELSE LET parts == Split(version, ".")
         IN  [i \in 1..Len(parts) |->
                 IF parts[i] = <<>> THEN 0 ELSE ScanInt(parts[i])]

RECURSIVE comparePartsFrom(_, _, _, _)
comparePartsFrom(ap, bp, i, maxLen) ==
    IF i > maxLen THEN 0
    ELSE LET av == IF i <= Len(ap) THEN ap[i] ELSE 0
             bv == IF i <= Len(bp) THEN bp[i] ELSE 0
         IN  IF av > bv THEN 1
             ELSE IF av < bv THEN -1
             ELSE comparePartsFrom(ap, bp, i + 1, maxLen)

\* compareVersions with the "v" left where it is.
compareVersionsUnstripped(a, b) ==
    LET ap == parseVersionParts(a)
        bp == parseVersionParts(b)
        maxLen == IF Len(bp) > Len(ap) THEN Len(bp) ELSE Len(ap)
    IN  comparePartsFrom(ap, bp, 1, maxLen)

compareVersions(a, b) ==
    LET ap == parseVersionParts(TrimPrefix(a, "v"))
        bp == parseVersionParts(TrimPrefix(b, "v"))
        maxLen == IF Len(bp) > Len(ap) THEN Len(bp) ELSE Len(ap)
    IN  comparePartsFrom(ap, bp, 1, maxLen)

-----------------------------------------------------------------------------
\* Maps and manifests

EmptyFn == [x \in {} |-> x]

NilMap == [isNil |-> TRUE, kv |-> EmptyFn]
EmptyMap == [isNil |-> FALSE, kv |-> EmptyFn]
Map(f) == [isNil |-> FALSE, kv |-> f]

Keys(m) == DOMAIN m.kv

\* m[k] for a key that may be absent: the zero value "" when it is.
Lookup(m, k) == IF k \in Keys(m) THEN m.kv[k] ELSE <<>>

cloneStringMap(src) ==
    IF Cardinality(Keys(src)) = 0
    THEN EmptyMap
    ELSE Map([k \in Keys(src) |-> src.kv[k]])

\* copyManifest of a non-nil source (the nil case is the empty pointer).
copyManifest(src) ==
    [Name        |-> src.Name,
     Version     |-> src.Version,
     Description |-> src.Description,
     Tokens      |-> cloneStringMap(src.Tokens),
     Fonts       |-> cloneStringMap(src.Fonts),
     Assets      |-> [Prefix |-> src.Assets.Prefix,
                      Files  |-> cloneStringMap(src.Assets.Files)],
     Templates   |-> cloneStringMap(src.Templates),
     Variants    |-> Map([n \in Keys(src.Variants) |->
                        LET v == src.Variants.kv[n]
                        IN  [Description |-> v.Description,
                             Tokens      |-> cloneStringMap(v.Tokens),
                             Assets      |->
                                 [Prefix |-> v.Assets.Prefix,
                                  Files  |-> cloneStringMap(v.Assets.Files)],
                             Templates   |-> cloneStringMap(v.Templates)]])]

-----------------------------------------------------------------------------
\* Errors

NoErr == [kind |-> "nil", issues |-> <<>>, arg |-> <<>>, wraps |-> <<>>]

Err(kind) == [kind |-> kind, issues |-> <<>>, arg |-> <<>>, wraps |-> <<>>]

\* fmt.Errorf("manifest is nil")
ErrManifestNil == Err("manifest is nil")

\* ValidationError{Issues: issues}
ValidationError(issues) ==
    [kind |-> "ValidationError", issues |-> issues, arg |-> <<>>, wraps |-> <<>>]

\* fmt.Errorf("name is required")
ErrNameRequired == Err("name is required")

\* fmt.Errorf("%w: %s", ErrThemeNotFound, name)
ErrThemeNotFound(name) ==
    [kind |-> "theme not found", issues |-> <<>>, arg |-> <<name>>, wraps |-> <<>>]

\* fmt.Errorf("%w: %s@%s", ErrVersionNotFound, name, version)
ErrVersionNotFound(name, version) ==
    [kind |-> "theme version not found", issues |-> <<>>,
     arg |-> <<name, version>>, wraps |-> <<>>]

-----------------------------------------------------------------------------
\* Manifest.Validate

\* The orders in which a range over a map with key set S may visit its keys.
RECURSIVE Orders(_)
Orders(S) ==
    IF S = {} THEN {<<>>}
    ELSE UNION {{<<k>> \o rest : rest \in Orders(S \ {k})} : k \in S}

Issue(msg, variant, family, key) ==
    [msg |-> msg, variant |-> variant, family |-> family, key |-> key]

\* validateMap going to the next entry after the first issue of an entry.
entryIssuesOneAtMost(variant, family, k, v) ==
    IF TrimSpace(k) = <<>>
    THEN <<Issue("has empty key", variant, family, <<>>)>>
    ELSE IF TrimSpace(v) = <<>>
    THEN <<Issue("entry is empty", variant, family, k)>>
    ELSE <<>>

\* What validateMap appends for one entry: the key's issue, then the value's.
entryIssues(variant, family, k, v) ==
    (IF TrimSpace(k) = <<>>
     THEN <<Issue("has empty key", variant, family, <<>>)>> ELSE <<>>)
    \o
    (IF TrimSpace(v) = <<>>
     THEN <<Issue("entry is empty", variant, family, k)>> ELSE <<>>)

RECURSIVE issuesInOrder(_, _, _, _)
issuesInOrder(variant, family, values, order) ==
    IF order = <<>> THEN <<>>
    ELSE entryIssues(variant, family, Head(order), values.kv[Head(order)])
         \o issuesInOrder(variant, family, values, Tail(order))

\* validateMap(label, values): every issue list a range over values can give.
validateMap(variant, family, values) ==
    {issuesInOrder(variant, family, values, o) : o \in Orders(Keys(values))}

\* The body of the loop over m.Variants for the variant called name.
variantIssues(name, variant) ==
    {(IF TrimSpace(name) = <<>>
      THEN <<Issue("variant name cannot be empty", <<name>>, "", <<>>)>>
      ELSE <<>>) \o a \o b \o c :
        a \in validateMap(<<name>>, "tokens", variant.Tokens),
        b \in validateMap(<<name>>, "templates", variant.Templates),
        c \in validateMap(<<name>>, "assets.files", variant.Assets.Files)}

RECURSIVE variantsInOrder(_, _)
variantsInOrder(variants, order) ==
    IF order = <<>> THEN {<<>>}
    ELSE {a \o b :
            a \in variantIssues(Head(order), variants.kv[Head(order)]),
            b \in variantsInOrder(variants, Tail(order))}

\* Every issue list Validate can collect for a non-nil manifest.
validateIssues(m) ==
    LET head ==
            (IF TrimSpace(m.Name) = <<>>
             THEN <<Issue("name is required", <<>>, "", <<>>)>> ELSE <<>>)
            \o
            (IF TrimSpace(m.Version) = <<>>
             THEN <<Issue("version is required", <<>>, "", <<>>)>> ELSE <<>>)
    IN  {head \o a \o b \o c \o d \o e :
            a \in validateMap(<<>>, "tokens", m.Tokens),
            b \in validateMap(<<>>, "fonts", m.Fonts),
            c \in validateMap(<<>>, "templates", m.Templates),
            d \in validateMap(<<>>, "assets.files", m.Assets.Files),
            e \in UNION {variantsInOrder(m.Variants, o) :
                            o \in Orders(Keys(m.Variants))}}

\* Validate on a pointer p (nil or one manifest): the errors it can return.
\* They differ only in the order of the issues.
Validate(p) ==
    IF p = <<>> THEN {ErrManifestNil}
    ELSE {IF issues = <<>> THEN NoErr ELSE ValidationError(issues) :
            issues \in validateIssues(p[1])}

-----------------------------------------------------------------------------
\* MemoryRegistry

\* NewRegistry(): an empty table.
NewRegistry == EmptyFn

\* QueryOption values.  WithVersion keeps the string it was given, so that a
\* call can be told from what it asks the registry for.
WithVersion(version) == [opt |-> "WithVersion", raw |-> version]
WithoutFallback == [opt |-> "WithoutFallback", raw |-> <<>>]

\* applyOption with WithoutFallback doing nothing.
applyOptionFallbackKept(settings, o) ==
    IF o.opt = "WithVersion"
    THEN [settings EXCEPT !.version = TrimSpace(o.raw)]
    ELSE settings

\* Running one option on the settings.
applyOption(settings, o) ==
    IF o.opt = "WithVersion"
    THEN [settings EXCEPT !.version = TrimSpace(o.raw)]
    ELSE [settings EXCEPT !.allowFallback = FALSE]

\* settings := queryOptions{allowFallback: true}; for _, opt := range opts
RECURSIVE applyOptions(_, _)
applyOptions(settings, opts) ==
    IF opts = <<>> THEN settings
    ELSE applyOptions(applyOption(settings, Head(opts)), Tail(opts))

querySettings(opts) ==
    applyOptions([version |-> <<>>, allowFallback |-> TRUE], opts)

\* The loop of latestVersion keeping the version that compares lowest.
RECURSIVE latestScanLowest(_, _)
latestScanLowest(order, best) ==
    IF order = <<>> THEN best
    ELSE latestScanLowest(Tail(order),
                    IF best = <<>> \/ compareVersions(Head(order), best) < 0
                    THEN Head(order) ELSE best)

\* The loop of latestVersion over the versions in one visiting order.
RECURSIVE latestScan(_, _)
latestScan(order, best) ==
    IF order = <<>> THEN best
    ELSE latestScan(Tail(order),
                    IF best = <<>> \/ compareVersions(Head(order), best) > 0
                    THEN Head(order) ELSE best)

\* latestVersion with the comparison dropped: the first version visited.
latestVersionUncompared(versions) ==
    {IF o = <<>> THEN <<>> ELSE Head(o) : o \in Orders(DOMAIN versions)}

\* latestVersion(versions): a range over a map visits it in any order, so
\* this is the set of the versions the loop can end with.
latestVersion(versions) ==
    {latestScan(o, <<>>) : o \in Orders(DOMAIN versions)}

\* storeManifest making the name's version map anew on every call.
storeManifestAnew(t, manifest) ==
    (manifest.Name :> (manifest.Version :> copyManifest(manifest))) @@ t

\* storeManifest filing the manifest under its version without the "v".
storeManifestNormalised(t, manifest) ==
    LET version == IF manifest.Version # <<>> /\ manifest.Version[1] \in {"v", "V"}
                   THEN Tail(manifest.Version)
                   ELSE manifest.Version
        t1 == IF manifest.Name \in DOMAIN t
              THEN t
              ELSE (manifest.Name :> EmptyFn) @@ t
    IN  [t1 EXCEPT ![manifest.Name] =
            (version :> copyManifest(manifest)) @@ t1[manifest.Name]]

\* The table after the two writes of Register, for a manifest that is valid.
storeManifest(t, manifest) ==
    LET t1 == IF manifest.Name \in DOMAIN t
              THEN t
              ELSE (manifest.Name :> EmptyFn) @@ t
    IN  [t1 EXCEPT ![manifest.Name] =
            (manifest.Version :> copyManifest(manifest)) @@ t1[manifest.Name]]

\* Register storing the manifest before it looks at Validate's answer.
RegisterThenValidate(t, p) ==
    IF p = <<>> THEN {[themes |-> t, err |-> ErrManifestNil]}
    ELSE {[themes |-> storeManifest(t, p[1]), err |-> e] : e \in Validate(p)}

\* Register(p) on table t: the (table, error) pairs it can end with.
Register(t, p) ==
    IF p = <<>> THEN {[themes |-> t, err |-> ErrManifestNil]}
    ELSE {IF e # NoErr
          THEN [themes |-> t, err |-> e]
          ELSE [themes |-> storeManifest(t, p[1]), err |-> NoErr] :
            e \in Validate(p)}

\* Get(name, opts...) on table t: the (manifest, error) pairs it can return.
Get(t, name, opts) ==
    IF TrimSpace(name) = <<>>
    THEN {[m |-> <<>>, err |-> ErrNameRequired]}
    ELSE
    LET settings == querySettings(opts) IN
    IF name \notin DOMAIN t \/ Cardinality(DOMAIN t[name]) = 0
    THEN {[m |-> <<>>, err |-> ErrThemeNotFound(name)]}
    ELSE
    LET versions == t[name] IN
    IF settings.version # <<>> /\ settings.version \in DOMAIN versions
    THEN {[m |-> <<copyManifest(versions[settings.version])>>, err |-> NoErr]}
    ELSE IF settings.version # <<>> /\ ~settings.allowFallback
    THEN {[m |-> <<>>, err |-> ErrVersionNotFound(name, settings.version)]}
    ELSE {IF version = <<>>
          THEN [m |-> <<>>, err |-> ErrThemeNotFound(name)]
          ELSE [m |-> <<copyManifest(versions[version])>>, err |-> NoErr] :
            version \in latestVersion(versions)}

\* Theme is an alias for Get.
Theme(t, name, opts) == Get(t, name, opts)

ManifestRef(name, version, description) ==
    [Name |-> name, Version |-> version, Description |-> description]

\* The refs List collects, one per stored manifest.
listRefs(t) ==
    UNION {{ManifestRef(name, version, t[name][version].Description) :
                version \in DOMAIN t[name]} : name \in DOMAIN t}

\* refLess with the versions compared the other way round.
refLessOldestFirst(x, y) ==
    IF x.Name = y.Name
    THEN compareVersions(x.Version, y.Version) < 0
    ELSE StrLess(x.Name, y.Name)

\* The less function List hands to sort.Slice.
refLess(x, y) ==
    IF x.Name = y.Name
    THEN compareVersions(x.Version, y.Version) > 0
    ELSE StrLess(x.Name, y.Name)

\* List() on table t: sort.Slice is not stable, so every arrangement of the
\* refs in which no ref is less than one before it is a possible result.
List(t) ==
    {refs \in Orders(listRefs(t)) :
        \A i \in 1..Len(refs), j \in 1..Len(refs) :
            i < j => ~refLess(refs[j], refs[i])}

\* Themes is an alias for List.
Themes(t) == List(t)

-----------------------------------------------------------------------------
\* Selector

\* fmt.Errorf("theme registry is nil")
ErrRegistryNil == Err("theme registry is nil")

\* The "resolve theme" error made with %v: the cause is in the text only.
ErrResolveThemeUnwrapped(err) ==
    [kind |-> "resolve theme", issues |-> <<>>, arg |-> <<>>, wraps |-> <<>>]

\* fmt.Errorf("resolve theme: %w", err)
ErrResolveTheme(err) ==
    [kind |-> "resolve theme", issues |-> <<>>, arg |-> <<>>, wraps |-> <<err>>]

Selection(theme, variant, manifest) ==
    [Theme |-> theme, Variant |-> variant, Manifest |-> manifest]

\* One call of s.Registry.Theme, as Select makes it.
Lookup1(name, opts, r) == [name |-> name, opts |-> opts, err |-> r.err]

\* The end of Select returning the variant as it was given.
selectResultVariantKept(s, themeName, variant, last, lookups) ==
    IF last.err # NoErr
    THEN [err |-> ErrResolveTheme(last.err), lookups |-> lookups, sel |-> <<>>]
    ELSE [err |-> NoErr,
          lookups |-> lookups,
          sel |-> <<Selection(themeName, variant, last.m)>>]

\* The end of Select, from the result of the last lookup on.
selectResult(s, themeName, variant, last, lookups) ==
    IF last.err # NoErr
    THEN [err |-> ErrResolveTheme(last.err), lookups |-> lookups, sel |-> <<>>]
    ELSE [err |-> NoErr,
          lookups |-> lookups,
          sel |-> <<Selection(themeName,
                              IF variant = <<>> THEN s.DefaultVariant ELSE variant,
                              last.m)>>]

\* Select retrying with the default theme also when that is the name it
\* looked up first.
SelectAlwaysRetrying(s, t, themeName0, variant, opts) ==
    LET trimmed == TrimSpace(themeName0)
        themeName == IF trimmed = <<>> THEN s.DefaultTheme ELSE trimmed
    IN  IF ~s.Registry
        THEN {[err |-> ErrRegistryNil, lookups |-> <<>>, sel |-> <<>>]}
        ELSE UNION {
               IF first.err # NoErr /\ s.DefaultTheme # <<>>
               THEN {selectResult(s, themeName, variant, second,
                                  <<Lookup1(themeName, opts, first),
                                    Lookup1(s.DefaultTheme, opts, second)>>) :
                        second \in Theme(t, s.DefaultTheme, opts)}
               ELSE {selectResult(s, themeName, variant, first,
                                  <<Lookup1(themeName, opts, first)>>)} :
               first \in Theme(t, themeName, opts)}

\* Selector.Select(themeName0, variant, opts...) of selector s on table t:
\* the results it can return, each with the lookups it made on the registry.
\* s.Registry tells whether a registry is attached.
Select(s, t, themeName0, variant, opts) ==
    LET trimmed == TrimSpace(themeName0)
        themeName == IF trimmed = <<>> THEN s.DefaultTheme ELSE trimmed
    IN  IF ~s.Registry
        THEN {[err |-> ErrRegistryNil, lookups |-> <<>>, sel |-> <<>>]}
        ELSE UNION {
               IF /\ first.err # NoErr
                  /\ s.DefaultTheme # <<>>
                  /\ themeName # s.DefaultTheme
               THEN {selectResult(s, themeName, variant, second,
                                  <<Lookup1(themeName, opts, first),
                                    Lookup1(s.DefaultTheme, opts, second)>>) :
                        second \in Theme(t, s.DefaultTheme, opts)}
               ELSE {selectResult(s, themeName, variant, first,
                                  <<Lookup1(themeName, opts, first)>>)} :
               first \in Theme(t, themeName, opts)}

-----------------------------------------------------------------------------
\* Tokens, templates and assets of a manifest and a variant

\* Variant{}: what m.Variants[variant] reads for a variant that is not there.
ZeroVariant ==
    [Description |-> <<>>,
     Tokens      |-> NilMap,
     Assets      |-> [Prefix |-> <<>>, Files |-> NilMap],
     Templates   |-> NilMap]

\* m.Variants[variant]
VariantOf(m, variant) ==
    IF variant \in Keys(m.Variants) THEN m.Variants.kv[variant] ELSE ZeroVariant

\* Manifest.TokensForVariant(variant)
TokensForVariant(m, variant) ==
    IF variant = <<>>
    THEN cloneStringMap(m.Tokens)
    ELSE IF \/ variant \notin Keys(m.Variants)
            \/ Cardinality(Keys(m.Variants.kv[variant].Tokens)) = 0
    THEN cloneStringMap(m.Tokens)
    ELSE Map(m.Variants.kv[variant].Tokens.kv @@ cloneStringMap(m.Tokens).kv)

\* CSSVariables with "--" before every key, whatever the prefix given.
CSSVariablesAlwaysDashed(m, prefix, variant) ==
    LET tokenSet == TokensForVariant(m, variant)
    IN  Map([x \in {<<"-", "-">> \o k : k \in Keys(tokenSet)} |->
                tokenSet.kv[SubSeq(x, 3, Len(x))]])

\* Manifest.CSSVariables(prefix, variant): vars[prefix+k] = v for every
\* token; no two tokens write the same key.
CSSVariables(m, prefix, variant) ==
    LET p == IF prefix = <<>> THEN <<"-", "-">> ELSE prefix
        tokenSet == TokensForVariant(m, variant)
    IN  Map([x \in {p \o k : k \in Keys(tokenSet)} |->
                tokenSet.kv[SubSeq(x, Len(p) + 1, Len(x))]])

\* manifestTemplate(manifest, variant, key), manifest a pointer.
manifestTemplate(manifest, variant, key) ==
    IF manifest = <<>> THEN <<>>
    ELSE IF variant = <<>> THEN Lookup(manifest[1].Templates, key)
    ELSE IF variant \in Keys(manifest[1].Variants)
    THEN Lookup(manifest[1].Variants.kv[variant].Templates, key)
    ELSE <<>>

\* resolveTemplate asking the base before the variant.
resolveTemplateBaseFirst(manifest, variant, key0, fallback) ==
    LET key == TrimSpace(key0)
    IN  IF manifest = <<>> \/ key = <<>> THEN fallback
        ELSE IF manifestTemplate(manifest, <<>>, key) # <<>>
        THEN manifestTemplate(manifest, <<>>, key)
        ELSE IF manifestTemplate(manifest, variant, key) # <<>>
        THEN manifestTemplate(manifest, variant, key)
        ELSE fallback

\* resolveTemplate with nothing to return for a nil manifest.
resolveTemplateNilEmpty(manifest, variant, key0, fallback) ==
    LET key == TrimSpace(key0)
    IN  IF manifest = <<>> THEN <<>>
        ELSE IF key = <<>> THEN fallback
        ELSE IF manifestTemplate(manifest, variant, key) # <<>>
        THEN manifestTemplate(manifest, variant, key)
        ELSE IF manifestTemplate(manifest, <<>>, key) # <<>>
        THEN manifestTemplate(manifest, <<>>, key)
        ELSE fallback

\* resolveTemplate(manifest, variant, key, fallback)
resolveTemplate(manifest, variant, key0, fallback) ==
    LET key == TrimSpace(key0)
    IN  IF manifest = <<>> \/ key = <<>> THEN fallback
        ELSE IF manifestTemplate(manifest, variant, key) # <<>>
        THEN manifestTemplate(manifest, variant, key)
        ELSE IF manifestTemplate(manifest, <<>>, key) # <<>>
        THEN manifestTemplate(manifest, <<>>, key)
        ELSE fallback

\* activePrefix taking the override whenever it is not empty.
activePrefixUntrimmed(base, override) ==
    IF override # <<>> THEN override ELSE base

\* activePrefix taking the base prefix unless it is blank.
activePrefixBaseFirst(base, override) ==
    IF TrimSpace(base) # <<>> THEN base ELSE override

\* activePrefix(base, override)
activePrefix(base, override) ==
    IF TrimSpace(override) # <<>> THEN override ELSE base

\* strings.TrimSuffix(s, c) for a one-character suffix c
TrimSuffix(s, c) ==
    IF s # <<>> /\ s[Len(s)] = c THEN SubSeq(s, 1, Len(s) - 1) ELSE s

\* strings.Contains(s, "://")
ContainsScheme(s) ==
    \E i \in 1..(Len(s) - 2) : s[i] = ":" /\ s[i + 1] = "/" /\ s[i + 2] = "/"

\* path.Clean on the elements between the slashes, first to last: "" and "."
\* are dropped, ".." takes back the element before it, or is dropped at the
\* root, or is kept.
RECURSIVE cleanElements(_, _, _)
cleanElements(elements, rooted, out) ==
    IF elements = <<>> THEN out
    ELSE LET e == Head(elements)
             rest == Tail(elements)
         IN  IF e = <<>> \/ e = <<".">>
             THEN cleanElements(rest, rooted, out)
             ELSE IF e # <<".", ".">>
             THEN cleanElements(rest, rooted, Append(out, e))
             ELSE IF out # <<>> /\ out[Len(out)] # <<".", ".">>
             THEN cleanElements(rest, rooted, SubSeq(out, 1, Len(out) - 1))
             ELSE IF rooted
             THEN cleanElements(rest, rooted, out)
             ELSE cleanElements(rest, rooted, Append(out, e))

\* The elements with one slash between each two.
RECURSIVE joinElements(_)
joinElements(elements) ==
    IF elements = <<>> THEN <<>>
    ELSE IF Len(elements) = 1 THEN elements[1]
    ELSE elements[1] \o <<"/">> \o joinElements(Tail(elements))

\* path.Clean(p)
Clean(p) ==
    LET rooted == p # <<>> /\ Head(p) = "/"
        cleaned == joinElements(cleanElements(Split(p, "/"), rooted, <<>>))
    IN  IF rooted THEN <<"/">> \o cleaned
        ELSE IF cleaned = <<>> THEN <<".">>
        ELSE cleaned

\* joinPath(prefix, p); path.Join cleans the elements that are not empty,
\* joined by slashes.
joinPath(prefix, p0) ==
    LET p == TrimPrefix(p0, "/")
    IN  IF prefix = <<>> THEN p
        ELSE IF ContainsScheme(prefix)
        THEN TrimSuffix(prefix, "/") \o <<"/">> \o TrimPrefix(p, "/")
        ELSE IF p = <<>> THEN Clean(prefix)
        ELSE Clean(prefix \o <<"/">> \o p)

\* The two results of resolveAsset.
Resolved(url, found) == [url |-> url, found |-> found]

\* resolveAsset looking in the base files before the variant's.
resolveAssetBaseFirst(manifest, variant, key0) ==
    LET key == TrimSpace(key0)
    IN  IF manifest = <<>> \/ key = <<>> THEN Resolved(<<>>, FALSE)
        ELSE
        LET m == manifest[1]
            variantAssets == VariantOf(m, variant).Assets
            prefix == TrimSuffix(activePrefix(m.Assets.Prefix,
                                              variantAssets.Prefix), "/")
        IN  IF Lookup(m.Assets.Files, key) # <<>>
            THEN Resolved(joinPath(prefix, Lookup(m.Assets.Files, key)), TRUE)
            ELSE IF Lookup(variantAssets.Files, key) # <<>>
            THEN Resolved(joinPath(prefix, Lookup(variantAssets.Files, key)),
                          TRUE)
            ELSE Resolved(<<>>, FALSE)

\* resolveAsset joining a path of the base files with the base prefix.
resolveAssetOwnPrefix(manifest, variant, key0) ==
    LET key == TrimSpace(key0)
    IN  IF manifest = <<>> \/ key = <<>> THEN Resolved(<<>>, FALSE)
        ELSE
        LET m == manifest[1]
            variantAssets == VariantOf(m, variant).Assets
            prefix == TrimSuffix(activePrefix(m.Assets.Prefix,
                                              variantAssets.Prefix), "/")
        IN  IF Lookup(variantAssets.Files, key) # <<>>
            THEN Resolved(joinPath(prefix, Lookup(variantAssets.Files, key)),
                          TRUE)
            ELSE IF Lookup(m.Assets.Files, key) # <<>>
            THEN Resolved(joinPath(TrimSuffix(m.Assets.Prefix, "/"),
                                   Lookup(m.Assets.Files, key)), TRUE)
            ELSE Resolved(<<>>, FALSE)

\* resolveAsset(manifest, variant, key)
resolveAsset(manifest, variant, key0) ==
    LET key == TrimSpace(key0)
    IN  IF manifest = <<>> \/ key = <<>> THEN Resolved(<<>>, FALSE)
        ELSE
        LET m == manifest[1]
            variantAssets == VariantOf(m, variant).Assets
            prefix == TrimSuffix(activePrefix(m.Assets.Prefix,
                                              variantAssets.Prefix), "/")
        IN  IF Lookup(variantAssets.Files, key) # <<>>
            THEN Resolved(joinPath(prefix, Lookup(variantAssets.Files, key)),
                          TRUE)
            ELSE IF Lookup(m.Assets.Files, key) # <<>>
            THEN Resolved(joinPath(prefix, Lookup(m.Assets.Files, key)), TRUE)
            ELSE Resolved(<<>>, FALSE)

\* Selection.Tokens()
SelectionTokens(s) ==
    IF s.Manifest = <<>> THEN EmptyMap
    ELSE TokensForVariant(s.Manifest[1], s.Variant)

\* Selection.CSSVariables(prefix)
SelectionCSSVariables(s, prefix) ==
    IF s.Manifest = <<>> THEN EmptyMap
    ELSE CSSVariables(s.Manifest[1], prefix, s.Variant)

\* Selection.Template(key, fallback)
Template(s, key, fallback) ==
    resolveTemplate(s.Manifest, s.Variant, key, fallback)

\* Selection.Partials(fallbacks)
Partials(s, fallbacks) ==
    Map([key \in Keys(fallbacks) |-> Template(s, key, fallbacks.kv[key])])

\* Selection.Asset(key)
Asset(s, key) == resolveAsset(s.Manifest, s.Variant, key)

\* Selection.RendererTheme(fallbacks); AssetURL is a closure over the
\* selection, and here is the selection it holds.
RendererTheme(s, fallbacks) ==
    [Tokens   |-> SelectionTokens(s),
     Theme    |-> s.Theme,
     Variant  |-> s.Variant,
     Partials |-> Partials(s, fallbacks),
     CSSVars  |-> SelectionCSSVariables(s, <<>>),
     AssetURL |-> s]

\* cfg.AssetURL(key)
AssetURL(cfg, key) == Asset(cfg.AssetURL, key).url

\* Selection.Snapshot(), as the specification and the README give it: the
\* merged tokens; the union of the base templates and the variant's, the
\* variant's entry for a key of both; the union of the base files and the
\* variant's likewise, every path joined with the active prefix; and that
\* prefix.  Empty maps and an empty prefix for a nil manifest.
Snapshot(s) ==
    IF s.Manifest = <<>>
    THEN [Tokens      |-> EmptyMap,
          Assets      |-> EmptyMap,
          Templates   |-> EmptyMap,
          Theme       |-> s.Theme,
          Variant     |-> s.Variant,
          AssetPrefix |-> <<>>]
    ELSE
    LET m == s.Manifest[1]
        variant == VariantOf(m, s.Variant)
        prefix == TrimSuffix(activePrefix(m.Assets.Prefix,
                                          variant.Assets.Prefix), "/")
        files == variant.Assets.Files.kv @@ m.Assets.Files.kv
    IN  [Tokens      |-> TokensForVariant(m, s.Variant),
         Assets      |-> Map([k \in DOMAIN files |-> joinPath(prefix, files[k])]),
         Templates   |-> Map(variant.Templates.kv @@ m.Templates.kv),
         Theme       |-> s.Theme,
         Variant     |-> s.Variant,
         AssetPrefix |-> prefix]

-----------------------------------------------------------------------------
\* The inputs the calls are made with

\* The most manifests the table holds.
MaxEntries == 3

RegNames == {<<"a">>, <<"b">>}

\* "1.0" and "1.0.0" and " 1.0" compare equal; "v2" is above them.
RegVersions ==
    {<<"1", ".", "0">>, <<"1", ".", "0", ".", "0">>, <<"v", "2">>,
     <<" ", "1", ".", "0">>}

NoAssets == [Prefix |-> <<>>, Files |-> NilMap]

NoVariants == [isNil |-> TRUE, kv |-> EmptyFn]

DarkVariant ==
    [Description |-> <<>>,
     Tokens      |-> Map(<<"p">> :> <<"k">>),
     Assets      |-> NoAssets,
     Templates   |-> NilMap]

\* What a manifest holds besides its name and version.
Plain ==
    [Description |-> "one",
     Tokens      |-> Map(<<"p">> :> <<"b">>),
     Fonts       |-> NilMap,
     Assets      |-> NoAssets,
     Templates   |-> NilMap,
     Variants    |-> NoVariants]

Rich ==
    [Description |-> "two",
     Tokens      |-> Map(<<"p">> :> <<"r">>),
     Fonts       |-> NilMap,
     Assets      |-> [Prefix |-> <<"/", "s">>,
                      Files  |-> Map(<<"l">> :> <<"l", ".", "p">>)],
     Templates   |-> Map(<<"f">> :> <<"t">>),
     Variants    |-> Map(<<"d">> :> DarkVariant)]

\* A token with an empty key and a blank value, and a variant with no name.
Broken ==
    [Description |-> "bad",
     Tokens      |-> Map(<<>> :> <<"x">> @@ <<"q">> :> <<" ">>),
     Fonts       |-> NilMap,
     Assets      |-> NoAssets,
     Templates   |-> NilMap,
     Variants    |-> Map(<<" ">> :> DarkVariant)]

Manifest(name, version, body) ==
    [Name        |-> name,
     Version     |-> version,
     Description |-> body.Description,
     Tokens      |-> body.Tokens,
     Fonts       |-> body.Fonts,
     Assets      |-> body.Assets,
     Templates   |-> body.Templates,
     Variants    |-> body.Variants]

\* Theme a comes in every version and with either body, theme b in two
\* versions with one body.
ValidManifests ==
    {Manifest(<<"a">>, v, b) : v \in RegVersions, b \in {Plain, Rich}}
    \cup {Manifest(<<"b">>, v, Plain) : v \in {<<"1", ".", "0">>, <<"v", "2">>}}

InvalidManifests ==
    {Manifest(<<" ">>, <<"1", ".", "0">>, Plain),
     Manifest(<<"a">>, <<" ">>, Rich),
     Manifest(<<"a">>, <<"1", ".", "0">>, Broken),
     Manifest(<<>>, <<>>, Broken)}

\* The pointers Register is called with: nil, or a manifest.
RegisterInputs ==
    {<<>>} \cup {<<m>> : m \in ValidManifests \cup InvalidManifests}

QueryNames == {<<>>, <<" ">>} \cup RegNames

QueryVersions == RegVersions \cup {<<" ", " ">>}

OptLists ==
    {<<>>, <<WithoutFallback>>,
     <<WithoutFallback, WithVersion(<<"1", ".", "0">>)>>,
     <<WithVersion(<<"1", ".", "0">>), WithVersion(<<"v", "2">>)>>}
    \cup {<<WithVersion(v)>> : v \in QueryVersions}
    \cup {<<WithVersion(v), WithoutFallback>> : v \in QueryVersions}

\* The number of manifests in table t.
NumEntries(t) == Cardinality(listRefs(t))

-----------------------------------------------------------------------------
\* The registry's calls

NumProcs == 2

\* The goroutines that call the registry.
Procs == 1..NumProcs

\* The zero RWMutex: no writer holds it, and no reader.
Unlocked == [writer |-> 0, readers |-> {}]

Init ==
    /\ themes = NewRegistry
    /\ call = [op |-> "NewRegistry"]
    /\ ret = [err |-> NoErr]
    /\ registered = EmptyFn
    /\ heap = <<>>
    /\ held = EmptyFn
    /\ mutations = <<>>
    /\ mu = Unlocked
    /\ pc = [self \in Procs |-> "idle"]
    /\ lin = NewRegistry
    /\ window = [self \in Procs |-> {}]

\* Register called with one of the pointers of `inputs`.
RegisterFrom(inputs) ==
    \E p \in inputs :
        \E r \in Register(themes, p) :
            /\ NumEntries(r.themes) <= MaxEntries
            /\ themes' = r.themes
            /\ call' = [manifest |-> p, op |-> "Register"]
            /\ ret' = [err |-> r.err]
            /\ registered' =
                    IF r.err = NoErr
                    THEN (<<p[1].Name, p[1].Version>> :> p[1]) @@ registered
                    ELSE registered
            /\ UNCHANGED <<aliasVars, concVars>>

DoRegister == RegisterFrom(RegisterInputs)

DoGet ==
    \E name \in QueryNames, opts \in OptLists :
        \E r \in Get(themes, name, opts) :
            /\ call' = [name |-> name, opts |-> opts, op |-> "Get"]
            /\ ret' = r
            /\ UNCHANGED <<themes, registered, aliasVars, concVars>>

DoList ==
    \E refs \in List(themes) :
        /\ call' = [op |-> "List"]
        /\ ret' = [refs |-> refs]
        /\ UNCHANGED <<themes, registered, aliasVars, concVars>>

Next == DoRegister \/ DoGet \/ DoList

Spec == Init /\ [][Next]_vars

-----------------------------------------------------------------------------
\* The selector's calls, on a registry that is being filled

Selector(registry, defaultTheme, defaultVariant) ==
    [DefaultVariant |-> defaultVariant, DefaultTheme |-> defaultTheme,
     Registry |-> registry]

\* Theme a is the default theme of most selectors; theme c is never
\* registered, and no manifest of theme b has a variant.
Selectors ==
    {Selector(TRUE, <<"a">>, <<"d">>),
     Selector(TRUE, <<"c">>, <<"d">>),
     Selector(TRUE, <<"b">>, <<"x">>),
     Selector(TRUE, <<>>, <<>>),
     Selector(FALSE, <<"a">>, <<"d">>)}

SelectRegisterInputs ==
    {<<>>, <<Manifest(<<>>, <<>>, Plain)>>}
    \cup {<<Manifest(<<"a">>, v, Rich)>> : v \in {<<"1", ".", "0">>, <<"v", "2">>}}
    \cup {<<Manifest(<<"b">>, v, Plain)>> : v \in {<<"1", ".", "0">>, <<"v", "2">>}}

SelectNames == {<<>>, <<" ">>, <<"a">>, <<" ", "a">>, <<"b">>}

SelectVariants == {<<>>, <<"d">>, <<"x">>}

SelectOptLists ==
    {<<>>,
     <<WithVersion(<<"v", "2">>)>>,
     <<WithVersion(<<"v", "2">>), WithoutFallback>>,
     <<WithVersion(<<"1", ".", "0">>), WithoutFallback>>}

DoSelectRegister == RegisterFrom(SelectRegisterInputs)

DoSelect ==
    \E s \in Selectors, themeName \in SelectNames, variant \in SelectVariants,
       opts \in SelectOptLists :
        \E r \in Select(s, themes, themeName, variant, opts) :
            /\ call' = [variant |-> variant, opts |-> opts,
                        themeName |-> themeName, op |-> "Select",
                        selector |-> s]
            /\ ret' = r
            /\ UNCHANGED <<themes, registered, aliasVars, concVars>>

NextSelect == DoSelectRegister \/ DoSelect

SpecSelect == Init /\ [][NextSelect]_vars

-----------------------------------------------------------------------------
\* Calls on a manifest and on a selection that the caller has built

VariantWith(tokens, assets, templates) ==
    [Description |-> <<>>, Tokens |-> tokens, Assets |-> assets,
     Templates |-> templates]

\* Manifest a@1 with the maps given.
ManifestWith(tokens, assets, templates, variants) ==
    Manifest(<<"a">>, <<"1">>,
             [Description |-> "one", Tokens |-> tokens, Fonts |-> NilMap,
              Assets |-> assets, Templates |-> templates,
              Variants |-> variants])

\* The variants maps with no variant, with variant d, and with a variant
\* whose name is empty.
VariantsOf(variantSet) ==
    {NilMap} \cup {Map(name :> v) : name \in {<<"d">>, <<>>}, v \in variantSet}

\* Template f is "b" in the base and "d" in the variant, or empty, or not
\* there; the variant may have template g only.
TemplateManifests ==
    {ManifestWith(NilMap, NoAssets, templates, variants) :
        templates \in {NilMap, Map(<<"f">> :> <<"b">>), Map(<<"f">> :> <<>>)},
        variants \in VariantsOf(
            {VariantWith(NilMap, NoAssets, t) :
                t \in {NilMap, Map(<<"f">> :> <<"d">>), Map(<<"f">> :> <<>>),
                       Map(<<"g">> :> <<"d">>)}})}

\* The base has prefix "/s" or a URL, and files l and b, b with a leading
\* slash; the variant has a prefix of its own or none, a blank one too, and
\* file l or file g.
AssetManifests ==
    {ManifestWith(NilMap, [Prefix |-> prefix, Files |-> files], NilMap,
                  variants) :
        prefix \in {<<>>, <<"/", "s">>, <<"/", "s", "/">>,
                    <<"c", ":", "/", "/", "h", "/">>},
        files \in {NilMap,
                   Map(<<"l">> :> <<"l", ".", "p">>
                       @@ <<"b">> :> <<"/", "i", "/", "b">>),
                   Map(<<"l">> :> <<>>),
                   Map(<<" ", "l">> :> <<"l", ".", "p">>)},
        variants \in VariantsOf(
            {VariantWith(NilMap, [Prefix |-> p, Files |-> f], NilMap) :
                p \in {<<>>, <<" ">>, <<"/", "v", "/">>,
                       <<"c", ":", "/", "/", "h", "/">>},
                f \in {NilMap, Map(<<"l">> :> <<"d", ".", "p">>),
                       Map(<<"l">> :> <<>>),
                       Map(<<"g">> :> <<"g", ".", "p">>)}})}

\* Tokens p and q in the base; p again and n in the variant, or no token.
TokenManifests ==
    {ManifestWith(tokens, NoAssets, NilMap, variants) :
        tokens \in {NilMap, Map(<<"p">> :> <<"b">> @@ <<"q">> :> <<"c">>)},
        variants \in VariantsOf(
            {VariantWith(t, NoAssets, NilMap) :
                t \in {NilMap, EmptyMap,
                       Map(<<"p">> :> <<"k">> @@ <<"n">> :> <<"w">>)}})}

\* Names, versions, keys, values and variant names, blank and not.
ValidateInputs ==
    {<<>>}
    \cup {<<m>> : m \in ValidManifests \cup InvalidManifests}
    \cup {<<Manifest(name, version,
                     [Description |-> "one", Tokens |-> tokens,
                      Fonts |-> fonts, Assets |-> NoAssets,
                      Templates |-> NilMap, Variants |-> variants])>> :
            name \in {<<"a">>, <<>>},
            version \in {<<"1">>, <<" ">>},
            tokens \in {NilMap, Map(<<"p">> :> <<"b">>),
                        Map(<<>> :> <<>> @@ <<"p">> :> <<"b">>)},
            fonts \in {NilMap, Map(<<" ">> :> <<"x">> @@ <<"q">> :> <<" ">>)},
            variants \in {NilMap} \cup
                {Map(n :> VariantWith(t, [Prefix |-> <<>>, Files |-> f],
                                      NilMap)) :
                    n \in {<<"d">>, <<" ">>},
                    t \in {NilMap, Map(<<"p">> :> <<>>)},
                    f \in {NilMap, Map(<<>> :> <<"x">>)}}}

\* The selections of a manifest of the set, and of no manifest under any
\* theme name: with no variant, with variant d, with a variant no manifest
\* has.
SelectionsOf(manifests) ==
    {Selection(<<"a">>, variant, <<m>>) :
        variant \in {<<>>, <<"d">>, <<"x">>}, m \in manifests}
    \cup {Selection(theme, variant, <<>>) :
            theme \in {<<>>, <<"a">>, <<"b">>},
            variant \in {<<>>, <<"d">>, <<"x">>}}

ResolveKeys ==
    {<<>>, <<" ">>, <<"l">>, <<" ", "l">>, <<"b">>, <<"f">>, <<"f", " ">>,
     <<"g">>, <<"z">>}

JoinPrefixes ==
    {<<>>, <<"/", "s">>, <<"/", "s", "/">>, <<"s", "/", "/", "t">>,
     <<"c", ":", "/", "/", "h">>, <<"c", ":", "/", "/", "h", "/">>,
     <<"c", ":", "/", "/", "h", "/", "/">>,
     <<"c", ":", "/", "/", "h", "?", "q", "/">>}

JoinPaths ==
    {<<>>, <<"/">>, <<"l", ".", "p">>, <<"/", "l", ".", "p">>,
     <<"/", "/", "l", ".", "p">>, <<"/", "/", "/", "l">>,
     <<"a", "/", ".", ".", "/", "b">>, <<"a", "/", "/", "b">>,
     <<".", "/", "a", "?", "q">>, <<".", ".", "/", "a", "/">>}

\* One result of a call on a manifest or on a selection.
Value(value) == [err |-> NoErr, value |-> value]

\* The variables that these calls leave alone.
unresolved == <<themes, registered, aliasVars, concVars>>

\* None of these calls reads what another one left, so that a behaviour
\* makes one of them, on what the caller has built.
Built == call.op = "NewRegistry"

DoTemplate ==
    \E s \in SelectionsOf(TemplateManifests), key \in ResolveKeys,
       fallback \in {<<>>, <<"f", "b">>} :
        /\ Built
        /\ call' = [key |-> key, fallback |-> fallback, op |-> "Template",
                    selection |-> s]
        /\ ret' = Value(Template(s, key, fallback))
        /\ UNCHANGED unresolved

DoAsset ==
    \E s \in SelectionsOf(AssetManifests), key \in ResolveKeys :
        /\ Built
        /\ call' = [key |-> key, op |-> "Asset", selection |-> s]
        /\ ret' = Value(Asset(s, key))
        /\ UNCHANGED unresolved

DoJoinPath ==
    \E prefix \in JoinPrefixes, p \in JoinPaths :
        /\ Built
        /\ call' = [p |-> p, prefix |-> prefix, op |-> "joinPath"]
        /\ ret' = Value(joinPath(prefix, p))
        /\ UNCHANGED unresolved

DoCSSVariables ==
    \E m \in TokenManifests, variant \in {<<>>, <<"d">>, <<"x">>},
       prefix \in {<<>>, <<"-", "-">>, <<"x", "-">>, <<" ">>} :
        /\ Built
        /\ call' = [variant |-> variant, manifest |-> <<m>>,
                    prefix |-> prefix, op |-> "CSSVariables"]
        /\ ret' = Value(CSSVariables(m, prefix, variant))
        /\ UNCHANGED unresolved

DoTokens ==
    \E s \in SelectionsOf(TokenManifests) :
        /\ Built
        /\ call' = [op |-> "Tokens", selection |-> s]
        /\ ret' = Value(SelectionTokens(s))
        /\ UNCHANGED unresolved

DoSelectionCSSVariables ==
    \E s \in SelectionsOf(TokenManifests),
       prefix \in {<<>>, <<"x", "-">>, <<" ">>} :
        /\ Built
        /\ call' = [prefix |-> prefix, op |-> "Selection.CSSVariables",
                    selection |-> s]
        /\ ret' = Value(SelectionCSSVariables(s, prefix))
        /\ UNCHANGED unresolved

DoPartials ==
    \E s \in SelectionsOf(TemplateManifests),
       fallbacks \in {NilMap, EmptyMap,
                      Map(<<"f">> :> <<"f", "b">> @@ <<" ", "g">> :> <<>>
                          @@ <<"z">> :> <<"z", "z">>)} :
        /\ Built
        /\ call' = [fallbacks |-> fallbacks, op |-> "Partials",
                    selection |-> s]
        /\ ret' = Value(Partials(s, fallbacks))
        /\ UNCHANGED unresolved

DoRendererTheme ==
    \E s \in SelectionsOf({Manifest(<<"a">>, <<"1">>, Rich)})
               \cup SelectionsOf(AssetManifests),
       fallbacks \in {NilMap, Map(<<"f">> :> <<"f", "b">>)} :
        /\ Built
        /\ call' = [fallbacks |-> fallbacks, op |-> "RendererTheme",
                    selection |-> s]
        /\ ret' = Value(RendererTheme(s, fallbacks))
        /\ UNCHANGED unresolved

DoSnapshot ==
    \E s \in SelectionsOf(AssetManifests) :
        /\ Built
        /\ call' = [op |-> "Snapshot", selection |-> s]
        /\ ret' = Value(Snapshot(s))
        /\ UNCHANGED unresolved

\* Versions of one, two, three and four segments, with and without "v",
\* with a suffix, a sign, a space, an empty segment, no digit at all.
CompareInputs ==
    {<<"1", ".", "1", ".", "0">>,
     <<"1", ".", "0", ".", "0">>,
     <<"v", "2", ".", "0", ".", "0">>,
     <<"1", ".", "9", ".", "9">>,
     <<"1", ".", "0">>,
     <<"1", ".", "0", ".", "0", "-", "r", "c", "1">>,
     <<"1", ".", "0", ".", "1", "-", "r", "c", "1">>,
     <<>>,
     <<"v">>,
     <<"1", ".", ".", "2">>,
     <<"r", "c">>,
     <<"1", ".", "-", "1">>,
     <<"1", "0">>,
     <<"9">>,
     <<"1", ".", "0", ".", "0", ".", "0">>,
     <<"v", "v", "3">>,
     <<"1", ".", "+", "2">>,
     <<" ", "1", ".", "0">>}

DoCompareVersions ==
    \E a \in CompareInputs, b \in CompareInputs :
        /\ Built
        /\ call' = [a |-> a, b |-> b, op |-> "compareVersions"]
        /\ ret' = Value(compareVersions(a, b))
        /\ UNCHANGED unresolved

DoValidate ==
    \E p \in ValidateInputs :
        \E e \in Validate(p) :
            /\ Built
            /\ call' = [manifest |-> p, op |-> "Validate"]
            /\ ret' = [err |-> e]
            /\ UNCHANGED unresolved

NextResolve ==
    \/ DoTemplate \/ DoAsset \/ DoJoinPath \/ DoCSSVariables
    \/ DoTokens \/ DoSelectionCSSVariables \/ DoPartials
    \/ DoRendererTheme \/ DoSnapshot \/ DoCompareVersions \/ DoValidate

SpecResolve == Init /\ [][NextResolve]_vars

-----------------------------------------------------------------------------
\* The registry on a heap: pointers, maps, and who can reach them
\*
\* An address is an index of `heap`, and 0 is nil.  A map[string]string and
\* a map[string]Variant are objects, for a map value is a reference; a
\* Manifest behind a pointer is an object; a Variant and an Assets are values
\* inside the object that has them.  On the heap a field of map type holds
\* an address, and a table entry is the address of the manifest stored.

StringsObject(f) == [kv |-> f, kind |-> "map[string]string"]

VariantsObject(f) == [kv |-> f, kind |-> "map[string]Variant"]

\* An allocation: the heap after it, and the address of the new object.
Made(h, object) == [heap |-> Append(h, object), ptr |-> Len(h) + 1]

\* The nil pointer, or the nil map: nothing is allocated.
NilAt(h) == [heap |-> h, ptr |-> 0]

\* cloneStringMap makes a new map also of a nil or an empty one.
cloneStringMapAt(h, src) ==
    Made(h, StringsObject(IF src = 0 THEN EmptyFn ELSE h[src].kv))

\* The loop of copyManifest over the variants still to visit: the heap and
\* the entries of cloned.Variants after it.
RECURSIVE copyVariantsFrom(_, _, _, _)
copyVariantsFrom(h, variants, names, cloned) ==
    IF names = {} THEN [heap |-> h, kv |-> cloned]
    ELSE
    LET name == CHOOSE n \in names : TRUE
        variant == variants[name]
        tokens == cloneStringMapAt(h, variant.Tokens)
        templates == cloneStringMapAt(tokens.heap, variant.Templates)
        files == cloneStringMapAt(templates.heap, variant.Assets.Files)
    IN  copyVariantsFrom(files.heap, variants, names \ {name},
            (name :> [Description |-> variant.Description,
                      Tokens      |-> tokens.ptr,
                      Assets      |-> [Prefix |-> variant.Assets.Prefix,
                                       Files  |-> files.ptr],
                      Templates   |-> templates.ptr]) @@ cloned)

\* copyManifest copying the struct and none of the maps in it.
copyManifestSharingMaps(h, src) ==
    IF src = 0 THEN NilAt(h) ELSE Made(h, h[src])

\* copyManifest(src): nil for nil, or a new Manifest with new maps.
copyManifestAt(h, src) ==
    IF src = 0 THEN NilAt(h)
    ELSE
    LET m == h[src]
        tokens == cloneStringMapAt(h, m.Tokens)
        fonts == cloneStringMapAt(tokens.heap, m.Fonts)
        files == cloneStringMapAt(fonts.heap, m.Assets.Files)
        templates == cloneStringMapAt(files.heap, m.Templates)
        variants == IF m.Variants = 0 THEN EmptyFn ELSE h[m.Variants].kv
        copied == copyVariantsFrom(templates.heap, variants, DOMAIN variants,
                                   EmptyFn)
        made == Made(copied.heap, VariantsObject(copied.kv))
    IN  Made(made.heap,
             [Name        |-> m.Name,
              Version     |-> m.Version,
              Description |-> m.Description,
              Tokens      |-> tokens.ptr,
              Fonts       |-> fonts.ptr,
              Assets      |-> [Prefix |-> m.Assets.Prefix,
                               Files  |-> files.ptr],
              Templates   |-> templates.ptr,
              Variants    |-> made.ptr,
              kind        |-> "Manifest"])

\* The map value behind an address.
MapAt(h, a) == IF a = 0 THEN NilMap ELSE Map(h[a].kv)

VariantAt(h, variant) ==
    [Description |-> variant.Description,
     Tokens      |-> MapAt(h, variant.Tokens),
     Assets      |-> [Prefix |-> variant.Assets.Prefix,
                      Files  |-> MapAt(h, variant.Assets.Files)],
     Templates   |-> MapAt(h, variant.Templates)]

\* The manifest a pointer leads to, read through every map it reaches.
ManifestAt(h, a) ==
    LET m == h[a]
    IN  [Name        |-> m.Name,
         Version     |-> m.Version,
         Description |-> m.Description,
         Tokens      |-> MapAt(h, m.Tokens),
         Fonts       |-> MapAt(h, m.Fonts),
         Assets      |-> [Prefix |-> m.Assets.Prefix,
                          Files  |-> MapAt(h, m.Assets.Files)],
         Templates   |-> MapAt(h, m.Templates),
         Variants    |-> IF m.Variants = 0 THEN NilMap
                         ELSE Map([n \in DOMAIN h[m.Variants].kv |->
                                     VariantAt(h, h[m.Variants].kv[n])])]

\* The table of manifests that a table of pointers stands for.
TableAt(h, t) ==
    [name \in DOMAIN t |->
        [version \in DOMAIN t[name] |-> ManifestAt(h, t[name][version])]]

\* The addresses of the objects that can be written through pointer p.
Reach(h, p) ==
    LET m == h[p]
        inner == IF m.Variants = 0 THEN {}
                 ELSE UNION {{h[m.Variants].kv[n].Tokens,
                              h[m.Variants].kv[n].Assets.Files,
                              h[m.Variants].kv[n].Templates} :
                                n \in DOMAIN h[m.Variants].kv}
    IN  ({p, m.Tokens, m.Fonts, m.Assets.Files, m.Templates, m.Variants}
         \cup inner) \ {0}

\* Register(p) on a table of pointers: the manifest is validated as it
\* reads, and the entry is the address of the copy.
RegisterAt(h, t, p) ==
    IF p = 0 THEN {[themes |-> t, heap |-> h, err |-> ErrManifestNil]}
    ELSE {IF e # NoErr
          THEN [themes |-> t, heap |-> h, err |-> e]
          ELSE LET copy == copyManifestAt(h, p)
                   t1 == IF h[p].Name \in DOMAIN t
                         THEN t
                         ELSE (h[p].Name :> EmptyFn) @@ t
               IN  [themes |-> [t1 EXCEPT ![h[p].Name] =
                                  (h[p].Version :> copy.ptr) @@ t1[h[p].Name]],
                    heap |-> copy.heap,
                    err |-> NoErr] :
            e \in Validate(<<ManifestAt(h, p)>>)}

\* A pointer returned with an error value.
Returned(copy, err) == [heap |-> copy.heap, err |-> err, ptr |-> copy.ptr]

\* Get(name, opts...) on a table of pointers: what it returns is the address
\* of a copy of the entry.
GetAt(h, t, name, opts) ==
    IF TrimSpace(name) = <<>>
    THEN {Returned(NilAt(h), ErrNameRequired)}
    ELSE
    LET settings == querySettings(opts) IN
    IF name \notin DOMAIN t \/ Cardinality(DOMAIN t[name]) = 0
    THEN {Returned(NilAt(h), ErrThemeNotFound(name))}
    ELSE
    LET versions == t[name] IN
    IF settings.version # <<>> /\ settings.version \in DOMAIN versions
    THEN {Returned(copyManifestAt(h, versions[settings.version]), NoErr)}
    ELSE IF settings.version # <<>> /\ ~settings.allowFallback
    THEN {Returned(copyManifestAt(h, 0),
                   ErrVersionNotFound(name, settings.version))}
    ELSE {IF version = <<>>
          THEN Returned(NilAt(h), ErrThemeNotFound(name))
          ELSE Returned(copyManifestAt(h, versions[version]), NoErr) :
            version \in latestVersion(versions)}

-----------------------------------------------------------------------------
\* A caller that keeps the pointers it registers and the pointers it is
\* returned, and writes through them

\* A caller's map literal: a new map, or nil.
NewMapAt(h, value) ==
    IF value.isNil THEN NilAt(h) ELSE Made(h, StringsObject(value.kv))

RECURSIVE newVariantsFrom(_, _, _, _)
newVariantsFrom(h, variants, names, made) ==
    IF names = {} THEN [heap |-> h, kv |-> made]
    ELSE
    LET name == CHOOSE n \in names : TRUE
        variant == variants[name]
        tokens == NewMapAt(h, variant.Tokens)
        templates == NewMapAt(tokens.heap, variant.Templates)
        files == NewMapAt(templates.heap, variant.Assets.Files)
    IN  newVariantsFrom(files.heap, variants, names \ {name},
            (name :> [Description |-> variant.Description,
                      Tokens      |-> tokens.ptr,
                      Assets      |-> [Prefix |-> variant.Assets.Prefix,
                                       Files  |-> files.ptr],
                      Templates   |-> templates.ptr]) @@ made)

\* &Manifest{...}: the caller's manifest m, every map of it a new object.
NewManifestAt(h, m) ==
    LET tokens == NewMapAt(h, m.Tokens)
        fonts == NewMapAt(tokens.heap, m.Fonts)
        files == NewMapAt(fonts.heap, m.Assets.Files)
        templates == NewMapAt(files.heap, m.Templates)
        inner == newVariantsFrom(templates.heap, m.Variants.kv,
                                 Keys(m.Variants), EmptyFn)
        variants == IF m.Variants.isNil THEN NilAt(inner.heap)
                    ELSE Made(inner.heap, VariantsObject(inner.kv))
    IN  Made(variants.heap,
             [Name        |-> m.Name,
              Version     |-> m.Version,
              Description |-> m.Description,
              Tokens      |-> tokens.ptr,
              Fonts       |-> fonts.ptr,
              Assets      |-> [Prefix |-> m.Assets.Prefix,
                               Files  |-> files.ptr],
              Templates   |-> templates.ptr,
              Variants    |-> variants.ptr,
              kind        |-> "Manifest"])

\* The objects one write can turn an object into: a map entry set or
\* deleted, a field of the manifest assigned.
Writes(object) ==
    IF object.kind = "map[string]string"
    THEN {[object EXCEPT !.kv = (<<"p">> :> <<"z">>) @@ object.kv]}
         \cup {[object EXCEPT !.kv = [x \in DOMAIN object.kv \ {k} |->
                                        object.kv[x]]] : k \in DOMAIN object.kv}
    ELSE IF object.kind = "map[string]Variant"
    THEN {[object EXCEPT !.kv =
              (<<"d">> :> [Description |-> <<"z">>,
                           Tokens      |-> 0,
                           Assets      |-> [Prefix |-> <<>>, Files |-> 0],
                           Templates   |-> 0]) @@ object.kv]}
         \cup {[object EXCEPT !.kv = [x \in DOMAIN object.kv \ {k} |->
                                        object.kv[x]]] : k \in DOMAIN object.kv}
    ELSE {[object EXCEPT !.Description = "z"],
          [object EXCEPT !.Variants = 0]}

MaxManifests == 4

MaxMutations == 2

\* The manifest the caller builds has a variant and every kind of map.
AliasManifests == {Manifest(<<"a">>, <<"1", ".", "0">>, Rich)}

AliasOptLists == {<<>>, <<WithVersion(<<"1", ".", "0">>)>>}

\* The number of manifests on heap h.
NumManifests(h) ==
    Cardinality({a \in 1..Len(h) : h[a].kind = "Manifest"})

DoNewManifest ==
    \E m \in AliasManifests :
        LET made == NewManifestAt(heap, m)
        IN  /\ NumManifests(made.heap) <= MaxManifests
            /\ heap' = made.heap
            /\ held' = (made.ptr :> "made") @@ held
            /\ call' = [op |-> "NewManifest"]
            /\ ret' = [ptr |-> made.ptr]
            /\ UNCHANGED <<themes, registered, mutations, concVars>>

DoRegisterAt ==
    \E p \in DOMAIN held :
        \E r \in RegisterAt(heap, themes, p) :
            /\ NumManifests(r.heap) <= MaxManifests
            /\ themes' = r.themes
            /\ heap' = r.heap
            /\ held' = IF r.err = NoErr
                       THEN [held EXCEPT ![p] = "registered"]
                       ELSE held
            /\ call' = [op |-> "Register", ptr |-> p]
            /\ ret' = [err |-> r.err]
            /\ registered' =
                    IF r.err = NoErr
                    THEN (<<heap[p].Name, heap[p].Version>> :>
                              ManifestAt(heap, p)) @@ registered
                    ELSE registered
            /\ UNCHANGED <<mutations, concVars>>

DoGetAt ==
    \E name \in {<<"a">>}, opts \in AliasOptLists :
        \E r \in GetAt(heap, themes, name, opts) :
            /\ NumManifests(r.heap) <= MaxManifests
            /\ heap' = r.heap
            /\ held' = IF r.ptr # 0 THEN (r.ptr :> "returned") @@ held ELSE held
            /\ call' = [name |-> name, opts |-> opts, op |-> "Get"]
            /\ ret' = [err |-> r.err, ptr |-> r.ptr]
            /\ UNCHANGED <<themes, registered, mutations, concVars>>

DoListAt ==
    \E refs \in List(TableAt(heap, themes)) :
        /\ call' = [op |-> "List"]
        /\ ret' = [refs |-> refs]
        /\ UNCHANGED <<themes, registered, aliasVars, concVars>>

\* The caller writes to an object it reaches through a pointer it holds.
DoMutate ==
    \E p \in DOMAIN held :
        \E a \in Reach(heap, p) :
            \E object \in Writes(heap[a]) :
                /\ Len(mutations) < MaxMutations
                /\ heap' = [heap EXCEPT ![a] = object]
                /\ mutations' = Append(mutations, [ptr |-> p, from |-> held[p]])
                /\ call' = [op |-> "Mutate", ptr |-> p]
                /\ ret' = [err |-> NoErr]
                /\ UNCHANGED <<themes, registered, held, concVars>>

NextAlias ==
    DoNewManifest \/ DoRegisterAt \/ DoGetAt \/ DoListAt \/ DoMutate

SpecAlias == Init /\ [][NextAlias]_vars

-----------------------------------------------------------------------------
\* A caller that asks a manifest it has built for its tokens, and writes to
\* the maps it is given

\* TokensForVariant giving the map of the manifest when no variant is
\* laid over it.
TokensForVariantSharingBase(h, p, variant) ==
    LET m == h[p]
        selected == IF m.Variants # 0 /\ variant \in DOMAIN h[m.Variants].kv
                    THEN h[m.Variants].kv[variant].Tokens
                    ELSE 0
        merged == cloneStringMapAt(h, m.Tokens)
    IN  IF variant = <<>> \/ selected = 0 \/ DOMAIN h[selected].kv = {}
        THEN [heap |-> h, ptr |-> m.Tokens]
        ELSE [heap |-> [merged.heap EXCEPT ![merged.ptr].kv =
                            h[selected].kv @@ @],
              ptr |-> merged.ptr]

\* TokensForVariant laying the variant's tokens over the manifest's own map.
TokensForVariantInPlace(h, p, variant) ==
    LET m == h[p]
        selected == IF m.Variants # 0 /\ variant \in DOMAIN h[m.Variants].kv
                    THEN h[m.Variants].kv[variant].Tokens
                    ELSE 0
    IN  IF \/ variant = <<>> \/ selected = 0 \/ DOMAIN h[selected].kv = {}
           \/ m.Tokens = 0
        THEN cloneStringMapAt(h, m.Tokens)
        ELSE [heap |-> [h EXCEPT ![m.Tokens].kv = h[selected].kv @@ @],
              ptr |-> m.Tokens]

\* Manifest.TokensForVariant(variant) on the manifest at p: the receiver is
\* a copy of the struct, whose maps are the maps of the manifest.
TokensForVariantAt(h, p, variant) ==
    LET m == h[p]
        selected == IF m.Variants # 0 /\ variant \in DOMAIN h[m.Variants].kv
                    THEN h[m.Variants].kv[variant].Tokens
                    ELSE 0
        merged == cloneStringMapAt(h, m.Tokens)
    IN  IF variant = <<>> \/ selected = 0 \/ DOMAIN h[selected].kv = {}
        THEN cloneStringMapAt(h, m.Tokens)
        ELSE [heap |-> [merged.heap EXCEPT ![merged.ptr].kv =
                            h[selected].kv @@ @],
              ptr |-> merged.ptr]

MaxTokenMaps == 2

\* The maps of tokens that the caller has been given.
TokenMaps == {q \in DOMAIN held : held[q] = "tokens"}

\* The caller builds the one manifest it asks.
DoNewTokenManifest ==
    \E m \in TokenManifests :
        LET made == NewManifestAt(heap, m)
        IN  /\ heap = <<>>
            /\ heap' = made.heap
            /\ held' = (made.ptr :> "made") @@ held
            /\ call' = [op |-> "NewManifest"]
            /\ ret' = [ptr |-> made.ptr]
            /\ UNCHANGED <<themes, registered, mutations, concVars>>

DoTokensForVariantAt ==
    \E p \in DOMAIN held \ TokenMaps, variant \in {<<>>, <<"d">>, <<"x">>} :
        LET r == TokensForVariantAt(heap, p, variant)
        IN  /\ Cardinality(TokenMaps) < MaxTokenMaps
            /\ heap' = r.heap
            /\ held' = IF r.ptr # 0 THEN (r.ptr :> "tokens") @@ held ELSE held
            /\ call' = [variant |-> variant, op |-> "TokensForVariant",
                        ptr |-> p]
            /\ ret' = [ptr |-> r.ptr]
            /\ UNCHANGED <<themes, registered, mutations, concVars>>

\* The caller sets or deletes an entry of a map it was given.
DoMutateTokens ==
    \E p \in TokenMaps :
        \E object \in Writes(heap[p]) :
            /\ Len(mutations) < MaxMutations
            /\ heap' = [heap EXCEPT ![p] = object]
            /\ mutations' = Append(mutations, [ptr |-> p, from |-> held[p]])
            /\ call' = [op |-> "Mutate", ptr |-> p]
            /\ ret' = [err |-> NoErr]
            /\ UNCHANGED <<themes, registered, held, concVars>>

NextTokens == DoNewTokenManifest \/ DoTokensForVariantAt \/ DoMutateTokens

SpecTokens == Init /\ [][NextTokens]_vars

-----------------------------------------------------------------------------
\* A caller that builds a manifest and calls the accessors of its selections

\* The selection with the manifest that its pointer leads to.
SelectionAt(h, s) ==
    Selection(s.Theme, s.Variant,
              IF s.Manifest = 0 THEN <<>> ELSE <<ManifestAt(h, s.Manifest)>>)

\* Selection.Tokens(): a new empty map for a nil manifest.
SelectionTokensAt(h, s) ==
    IF s.Manifest = 0 THEN Made(h, StringsObject(EmptyFn))
    ELSE TokensForVariantAt(h, s.Manifest, s.Variant)

\* Selection.CSSVariables(prefix): the merged tokens are a map of their own,
\* and vars another.
SelectionCSSVariablesAt(h, s, prefix) ==
    IF s.Manifest = 0 THEN Made(h, StringsObject(EmptyFn))
    ELSE
    LET p == IF prefix = <<>> THEN <<"-", "-">> ELSE prefix
        tokenSet == TokensForVariantAt(h, s.Manifest, s.Variant)
        tokens == tokenSet.heap[tokenSet.ptr].kv
    IN  Made(tokenSet.heap,
             StringsObject([x \in {p \o k : k \in DOMAIN tokens} |->
                              tokens[SubSeq(x, Len(p) + 1, Len(x))]]))

\* Selection.Partials(fallbacks): out is a new map.
PartialsAt(h, s, fallbacks) ==
    Made(h, StringsObject(Partials(SelectionAt(h, s), fallbacks).kv))

\* A manifest with every kind of map, one with tokens only, and the
\* manifests with tokens in the variant.
AccessManifests ==
    {Manifest(<<"a">>, <<"1">>, Rich), Manifest(<<"a">>, <<"1">>, Plain)}
    \cup TokenManifests

\* The selections the caller makes of the manifest it holds, and of none.
SelectionsAt ==
    {Selection(<<"a">>, variant, p) :
        variant \in {<<>>, <<"d">>, <<"x">>}, p \in DOMAIN held \cup {0}}

DoNewAccessManifest ==
    \E m \in AccessManifests :
        LET made == NewManifestAt(heap, m)
        IN  /\ heap = <<>>
            /\ heap' = made.heap
            /\ held' = (made.ptr :> "made") @@ held
            /\ call' = [op |-> "NewManifest"]
            /\ ret' = [ptr |-> made.ptr]
            /\ UNCHANGED <<themes, registered, mutations, concVars>>

\* A call that returns value and leaves the heap as h.  The caller keeps
\* the value and none of the maps made for it: what is left of the heap is
\* the objects that were there.
Accessed(s, op, h, value) ==
    /\ heap # <<>>
    /\ heap' = SubSeq(h, 1, Len(heap))
    /\ call' = [op |-> op, selection |-> s]
    /\ ret' = Value(value)
    /\ UNCHANGED <<themes, registered, held, mutations, concVars>>

DoTokensAt ==
    \E s \in SelectionsAt :
        LET r == SelectionTokensAt(heap, s)
        IN  Accessed(s, "Tokens", r.heap, MapAt(r.heap, r.ptr))

DoCSSVariablesAt ==
    \E s \in SelectionsAt, prefix \in {<<>>, <<"x", "-">>} :
        LET r == SelectionCSSVariablesAt(heap, s, prefix)
        IN  Accessed(s, "CSSVariables", r.heap, MapAt(r.heap, r.ptr))

DoTemplateAt ==
    \E s \in SelectionsAt, key \in {<<"f">>, <<"z">>} :
        Accessed(s, "Template", heap,
                 Template(SelectionAt(heap, s), key, <<"f", "b">>))

DoPartialsAt ==
    \E s \in SelectionsAt :
        LET r == PartialsAt(heap, s, Map(<<"f">> :> <<"f", "b">>))
        IN  Accessed(s, "Partials", r.heap, MapAt(r.heap, r.ptr))

DoAssetAt ==
    \E s \in SelectionsAt, key \in {<<"l">>, <<"z">>} :
        Accessed(s, "Asset", heap, Asset(SelectionAt(heap, s), key))

\* RendererTheme calls Partials, Tokens and CSSVariables(""), in this order.
DoRendererThemeAt ==
    \E s \in SelectionsAt :
        LET partials == PartialsAt(heap, s, Map(<<"f">> :> <<"f", "b">>))
            tokens == SelectionTokensAt(partials.heap, s)
            cssVars == SelectionCSSVariablesAt(tokens.heap, s, <<>>)
        IN  Accessed(s, "RendererTheme", cssVars.heap,
                     [Tokens   |-> MapAt(cssVars.heap, tokens.ptr),
                      Theme    |-> s.Theme,
                      Variant  |-> s.Variant,
                      Partials |-> MapAt(cssVars.heap, partials.ptr),
                      CSSVars  |-> MapAt(cssVars.heap, cssVars.ptr),
                      AssetURL |-> s])

\* Snapshot makes the map of the tokens, of the templates and of the assets.
DoSnapshotAt ==
    \E s \in SelectionsAt :
        LET snapshot == Snapshot(SelectionAt(heap, s))
            tokens == SelectionTokensAt(heap, s)
            templates == Made(tokens.heap, StringsObject(snapshot.Templates.kv))
            assets == Made(templates.heap, StringsObject(snapshot.Assets.kv))
        IN  Accessed(s, "Snapshot", assets.heap,
                     [Tokens      |-> MapAt(assets.heap, tokens.ptr),
                      Assets      |-> MapAt(assets.heap, assets.ptr),
                      Templates   |-> MapAt(assets.heap, templates.ptr),
                      Theme       |-> s.Theme,
                      Variant     |-> s.Variant,
                      AssetPrefix |-> snapshot.AssetPrefix])

NextAccess ==
    \/ DoNewAccessManifest \/ DoTokensAt \/ DoCSSVariablesAt \/ DoTemplateAt
    \/ DoPartialsAt \/ DoAssetAt \/ DoRendererThemeAt \/ DoSnapshotAt

SpecAccess == Init /\ [][NextAccess]_vars

-----------------------------------------------------------------------------
\* Goroutines calling one registry at once
\*
\* A call is a chain of steps, one for each access to the lock or to the
\* table; what a call computes on its own (trimming, the options, Validate,
\* the copy, the sort) goes with the step before it.  Between the steps of one
\* goroutine the others may take any of theirs.

\* A Lock that waits for the writer only.
LockHeedingNoReader(m) == m.writer = 0

\* mu.Lock() returns when no writer and no reader holds the lock.
CanLock(m) == m.writer = 0 /\ m.readers = {}

\* mu.RLock() returns when no writer holds the lock.
CanRLock(m) == m.writer = 0

ConcRegisterInputs ==
    {<<>>, <<Manifest(<<>>, <<>>, Plain)>>,
     <<Manifest(<<"a">>, <<"1", ".", "0">>, Plain)>>,
     <<Manifest(<<"a">>, <<"v", "2">>, Rich)>>,
     <<Manifest(<<"b">>, <<"1", ".", "0">>, Plain)>>}

ConcNames == {<<>>, <<"a">>}

ConcOptLists == {<<>>, <<WithVersion(<<"v", "2">>), WithoutFallback>>}

\* The goroutines that are inside a call.
Calling == {self \in Procs : pc[self] # "idle"}

InitConc ==
    /\ themes = NewRegistry
    /\ call = [self \in Procs |-> [op |-> "NewRegistry"]]
    /\ ret = [self \in Procs |-> [err |-> NoErr]]
    /\ registered = EmptyFn
    /\ heap = <<>>
    /\ held = EmptyFn
    /\ mutations = <<>>
    /\ mu = Unlocked
    /\ pc = [self \in Procs |-> "idle"]
    /\ lin = NewRegistry
    /\ window = [self \in Procs |-> {}]

\* A goroutine calls Register: the nil check and Validate.
RegisterBegin(self) ==
    /\ pc[self] = "idle"
    /\ \E p \in ConcRegisterInputs :
        \E e \in (IF p = <<>> THEN {ErrManifestNil} ELSE Validate(p)) :
            /\ call' = [call EXCEPT ![self] = [manifest |-> p, op |-> "Register"]]
            /\ ret' = [ret EXCEPT ![self] = [err |-> e]]
            /\ pc' = [pc EXCEPT ![self] =
                        IF e # NoErr THEN "return" ELSE "Lock"]
    /\ window' = [window EXCEPT ![self] = {lin}]
    /\ UNCHANGED <<themes, registered, aliasVars, mu, lin>>

RegisterLock(self) ==
    /\ pc[self] = "Lock"
    /\ CanLock(mu)
    /\ mu' = [mu EXCEPT !.writer = self]
    /\ pc' = [pc EXCEPT ![self] = "ok"]
    /\ UNCHANGED <<themes, call, ret, registered, aliasVars, lin, window>>

\* _, ok := r.themes[manifest.Name]
RegisterCheck(self) ==
    /\ pc[self] = "ok"
    /\ pc' = [pc EXCEPT ![self] =
                IF call[self].manifest[1].Name \in DOMAIN themes
                THEN "store" ELSE "make"]
    /\ UNCHANGED <<themes, call, ret, registered, aliasVars, mu, lin, window>>

\* r.themes[manifest.Name] = make(map[string]*Manifest)
RegisterMake(self) ==
    /\ pc[self] = "make"
    /\ themes' = (call[self].manifest[1].Name :> EmptyFn) @@ themes
    /\ pc' = [pc EXCEPT ![self] = "store"]
    /\ UNCHANGED <<call, ret, registered, aliasVars, mu, lin, window>>

\* r.themes[manifest.Name][manifest.Version] = copyManifest(manifest)
RegisterStore(self) ==
    /\ pc[self] = "store"
    /\ LET manifest == call[self].manifest[1]
       IN  /\ themes' = [themes EXCEPT ![manifest.Name] =
                  (manifest.Version :> copyManifest(manifest)) @@ @]
           /\ lin' = storeManifest(lin, manifest)
    /\ window' = [p \in Procs |->
                    IF p \in Calling THEN window[p] \cup {lin'} ELSE window[p]]
    /\ pc' = [pc EXCEPT ![self] = "Unlock"]
    /\ UNCHANGED <<call, ret, registered, aliasVars, mu>>

\* The deferred Unlock, and the return.
RegisterUnlock(self) ==
    /\ pc[self] = "Unlock"
    /\ mu' = [mu EXCEPT !.writer = 0]
    /\ pc' = [pc EXCEPT ![self] = "return"]
    /\ UNCHANGED <<themes, call, ret, registered, aliasVars, lin, window>>

\* A goroutine calls Get: the name check and the options.
GetBegin(self) ==
    /\ pc[self] = "idle"
    /\ \E name \in ConcNames, opts \in ConcOptLists :
        /\ call' = [call EXCEPT ![self] =
                      [name |-> name, opts |-> opts, op |-> "Get"]]
        /\ ret' = [ret EXCEPT ![self] =
                      IF TrimSpace(name) = <<>>
                      THEN [m |-> <<>>, err |-> ErrNameRequired]
                      ELSE [m |-> <<>>, err |-> NoErr]]
        /\ pc' = [pc EXCEPT ![self] =
                    IF TrimSpace(name) = <<>> THEN "return" ELSE "RLock"]
    /\ window' = [window EXCEPT ![self] = {lin}]
    /\ UNCHANGED <<themes, registered, aliasVars, mu, lin>>

GetRLock(self) ==
    /\ pc[self] = "RLock"
    /\ call[self].op = "Get"
    /\ CanRLock(mu)
    /\ mu' = [mu EXCEPT !.readers = @ \cup {self}]
    /\ pc' = [pc EXCEPT ![self] = "versions"]
    /\ UNCHANGED <<themes, call, ret, registered, aliasVars, lin, window>>

\* versions, ok := r.themes[name]; if !ok || len(versions) == 0
GetLookup(self) ==
    /\ pc[self] = "versions"
    /\ LET name == call[self].name
       IN  IF name \notin DOMAIN themes \/ Cardinality(DOMAIN themes[name]) = 0
           THEN /\ ret' = [ret EXCEPT ![self] =
                             [m |-> <<>>, err |-> ErrThemeNotFound(name)]]
                /\ pc' = [pc EXCEPT ![self] = "RUnlock"]
           ELSE /\ pc' = [pc EXCEPT ![self] = "version"]
                /\ UNCHANGED ret
    /\ UNCHANGED <<themes, call, registered, aliasVars, mu, lin, window>>

\* The rest of Get reads the versions of the name: the version asked for,
\* or the latest, and the copy of its manifest.
GetPick(self) ==
    /\ pc[self] = "version"
    /\ \E r \in Get(themes, call[self].name, call[self].opts) :
          ret' = [ret EXCEPT ![self] = r]
    /\ pc' = [pc EXCEPT ![self] = "RUnlock"]
    /\ UNCHANGED <<themes, call, registered, aliasVars, mu, lin, window>>

\* The deferred RUnlock of Get and of List, and the return.
RUnlock(self) ==
    /\ pc[self] = "RUnlock"
    /\ mu' = [mu EXCEPT !.readers = @ \ {self}]
    /\ pc' = [pc EXCEPT ![self] = "return"]
    /\ UNCHANGED <<themes, call, ret, registered, aliasVars, lin, window>>

\* A goroutine calls List.
ListBegin(self) ==
    /\ pc[self] = "idle"
    /\ call' = [call EXCEPT ![self] = [op |-> "List"]]
    /\ ret' = [ret EXCEPT ![self] = [refs |-> <<>>]]
    /\ pc' = [pc EXCEPT ![self] = "RLock"]
    /\ window' = [window EXCEPT ![self] = {lin}]
    /\ UNCHANGED <<themes, registered, aliasVars, mu, lin>>

ListRLock(self) ==
    /\ pc[self] = "RLock"
    /\ call[self].op = "List"
    /\ CanRLock(mu)
    /\ mu' = [mu EXCEPT !.readers = @ \cup {self}]
    /\ pc' = [pc EXCEPT ![self] = "range"]
    /\ UNCHANGED <<themes, call, ret, registered, aliasVars, lin, window>>

\* The loops over r.themes, and the sort of the refs.
ListCollect(self) ==
    /\ pc[self] = "range"
    /\ \E refs \in List(themes) :
          ret' = [ret EXCEPT ![self] = [refs |-> refs]]
    /\ pc' = [pc EXCEPT ![self] = "RUnlock"]
    /\ UNCHANGED <<themes, call, registered, aliasVars, mu, lin, window>>

\* The call has returned and the goroutine goes on to its next.
Return(self) ==
    /\ pc[self] = "return"
    /\ pc' = [pc EXCEPT ![self] = "idle"]
    /\ UNCHANGED <<themes, call, ret, registered, aliasVars, mu, lin, window>>

NextConc ==
    \E self \in Procs :
        \/ RegisterBegin(self) \/ RegisterLock(self) \/ RegisterCheck(self)
        \/ RegisterMake(self) \/ RegisterStore(self) \/ RegisterUnlock(self)
        \/ GetBegin(self) \/ GetRLock(self) \/ GetLookup(self)
        \/ GetPick(self) \/ RUnlock(self)
        \/ ListBegin(self) \/ ListRLock(self) \/ ListCollect(self)
        \/ Return(self)

SpecConc == InitConc /\ [][NextConc]_vars

-----------------------------------------------------------------------------
\* A Select in flight while other goroutines register

\* Each lookup of Select is one Get, which reads the table under the read
\* lock, and a Register writes it under the write lock: each is one step
\* here.  pc is the position of the Select, lin the lookups it has made so
\* far, window the tables the registry has held since the Select began.

\* The name Select looks up first: the trimmed name, or the default theme.
selectThemeName(s, themeName0) ==
    IF TrimSpace(themeName0) = <<>> THEN s.DefaultTheme ELSE TrimSpace(themeName0)

FlightSelectors ==
    {Selector(TRUE, <<"b">>, <<"d">>),
     Selector(TRUE, <<>>, <<>>),
     Selector(FALSE, <<"b">>, <<"d">>)}

FlightNames == {<<>>, <<"a">>, <<" ", "a">>}

FlightOptLists == {<<>>, <<WithVersion(<<"v", "2">>), WithoutFallback>>}

FlightRegisterInputs ==
    {<<Manifest(<<"a">>, <<"1", ".", "0">>, Plain)>>,
     <<Manifest(<<"b">>, <<"1", ".", "0">>, Plain)>>,
     <<Manifest(<<"b">>, <<"v", "2">>, Rich)>>}

InitFlight ==
    /\ themes = NewRegistry
    /\ call = [op |-> "NewRegistry"]
    /\ ret = [err |-> NoErr]
    /\ registered = EmptyFn
    /\ heap = <<>>
    /\ held = EmptyFn
    /\ mutations = <<>>
    /\ mu = Unlocked
    /\ pc = "idle"
    /\ lin = <<>>
    /\ window = {}

\* Select is called: the name is settled and the registry tested for nil.
SelectBegin ==
    \E s \in FlightSelectors, themeName \in FlightNames, opts \in FlightOptLists :
        /\ pc = "idle"
        /\ call' = [variant |-> <<>>, opts |-> opts, themeName |-> themeName,
                    op |-> "Select", selector |-> s]
        /\ lin' = <<>>
        /\ window' = {themes}
        /\ IF s.Registry
           THEN pc' = "first" /\ ret' = [err |-> NoErr]
           ELSE /\ pc' = "done"
                /\ ret' = [err |-> ErrRegistryNil, lookups |-> <<>>, sel |-> <<>>]
        /\ UNCHANGED <<themes, registered, aliasVars, mu>>

\* s.Registry.Theme(themeName, opts...)
SelectFirst ==
    /\ pc = "first"
    /\ LET s == call.selector
           themeName == selectThemeName(s, call.themeName)
       IN  \E first \in Theme(themes, themeName, call.opts) :
               LET lookups == <<Lookup1(themeName, call.opts, first)>> IN
               /\ lin' = lookups
               /\ IF /\ first.err # NoErr
                     /\ s.DefaultTheme # <<>>
                     /\ themeName # s.DefaultTheme
                  THEN pc' = "second" /\ ret' = ret
                  ELSE /\ pc' = "done"
                       /\ ret' = selectResult(s, themeName, call.variant,
                                              first, lookups)
    /\ UNCHANGED <<themes, call, registered, aliasVars, mu, window>>

\* s.Registry.Theme(s.DefaultTheme, opts...)
SelectSecond ==
    /\ pc = "second"
    /\ LET s == call.selector
           themeName == selectThemeName(s, call.themeName)
       IN  \E second \in Theme(themes, s.DefaultTheme, call.opts) :
               LET lookups == lin \o <<Lookup1(s.DefaultTheme, call.opts, second)>> IN
               /\ lin' = lookups
               /\ pc' = "done"
               /\ ret' = selectResult(s, themeName, call.variant, second, lookups)
    /\ UNCHANGED <<themes, call, registered, aliasVars, mu, window>>

\* Select returns to its caller.
SelectReturn ==
    /\ pc = "done"
    /\ pc' = "idle"
    /\ UNCHANGED <<themes, call, ret, registered, aliasVars, mu, lin, window>>

\* Another goroutine registers a manifest, whatever the Select is at.
RegisterMeanwhile ==
    \E p \in FlightRegisterInputs :
        \E r \in Register(themes, p) :
            /\ NumEntries(r.themes) <= MaxEntries
            /\ themes' = r.themes
            /\ registered' =
                    IF r.err = NoErr
                    THEN (<<p[1].Name, p[1].Version>> :> p[1]) @@ registered
                    ELSE registered
            /\ window' = IF pc \in {"first", "second", "done"}
                         THEN window \cup {r.themes}
                         ELSE window
            /\ UNCHANGED <<call, ret, aliasVars, mu, pc, lin>>

NextFlight ==
    \/ SelectBegin \/ SelectFirst \/ SelectSecond \/ SelectReturn
    \/ RegisterMeanwhile

SpecFlight == InitFlight /\ [][NextFlight]_vars

-----------------------------------------------------------------------------
\* Vocabulary of the properties

\* Two maps with the same entries (a nil map has none).
SameMap(x, y) == x.kv = y.kv

SameVariant(x, y) ==
    /\ x.Description = y.Description
    /\ SameMap(x.Tokens, y.Tokens)
    /\ SameMap(x.Templates, y.Templates)
    /\ x.Assets.Prefix = y.Assets.Prefix
    /\ SameMap(x.Assets.Files, y.Assets.Files)

\* Two manifests that agree field by field and entry by entry.
SameManifest(x, y) ==
    /\ x.Name = y.Name
    /\ x.Version = y.Version
    /\ x.Description = y.Description
    /\ SameMap(x.Tokens, y.Tokens)
    /\ SameMap(x.Fonts, y.Fonts)
    /\ x.Assets.Prefix = y.Assets.Prefix
    /\ SameMap(x.Assets.Files, y.Assets.Files)
    /\ SameMap(x.Templates, y.Templates)
    /\ Keys(x.Variants) = Keys(y.Variants)
    /\ \A n \in Keys(x.Variants) :
          SameVariant(x.Variants.kv[n], y.Variants.kv[n])

\* The name has at least one registered version.
HasVersions(name) == name \in DOMAIN themes /\ DOMAIN themes[name] # {}

\* The strings the WithVersion options of a call were given, in order.
RECURSIVE VersionsAsked(_)
VersionsAsked(opts) ==
    IF opts = <<>> THEN <<>>
    ELSE (IF Head(opts).opt = "WithVersion" THEN <<Head(opts).raw>> ELSE <<>>)
         \o VersionsAsked(Tail(opts))

\* The string of the WithVersion option that counts, the last one.
VersionAsked(opts) == VersionsAsked(opts)[Len(VersionsAsked(opts))]

FallbackDisabled(opts) ==
    \E i \in 1..Len(opts) : opts[i].opt = "WithoutFallback"

\* The call returned a manifest of the name whose version no registered
\* version of the name exceeds.
ReturnedLatest(name) ==
    /\ ret.err = NoErr
    /\ Len(ret.m) = 1
    /\ \E w \in DOMAIN themes[name] :
          /\ ret.m[1].Version = w
          /\ SameManifest(ret.m[1], themes[name][w])
          /\ \A u \in DOMAIN themes[name] : compareVersions(w, u) >= 0

-----------------------------------------------------------------------------
\* C1, as stated: a Get of a name that has versions, made with no version
\* option, or with WithVersion(v) for a string v that is not a registered
\* version of the name and with fallback left on, succeeds with a manifest of
\* the name whose version is maximal under compareVersions.
C1_AsStated ==
    (/\ call.op = "Get"
     /\ HasVersions(call.name)
     /\ \/ VersionsAsked(call.opts) = <<>>
        \/ /\ VersionsAsked(call.opts) # <<>>
           /\ VersionAsked(call.opts) \notin DOMAIN themes[call.name]
           /\ ~FallbackDisabled(call.opts))
    => ReturnedLatest(call.name)

\* C1, amended: the same, for WithVersion(v) whose v is not a registered
\* version of the name once v is trimmed, which is how WithVersion keeps it.
C1_LatestWhenNoExactMatch ==
    (/\ call.op = "Get"
     /\ HasVersions(call.name)
     /\ \/ VersionsAsked(call.opts) = <<>>
        \/ /\ VersionsAsked(call.opts) # <<>>
           /\ TrimSpace(VersionAsked(call.opts)) \notin DOMAIN themes[call.name]
           /\ ~FallbackDisabled(call.opts))
    => ReturnedLatest(call.name)

\* A Get that fell back from an unregistered version to the latest of two
\* versions that do not compare equal.
C1_Witness ==
    /\ call.op = "Get"
    /\ HasVersions(call.name)
    /\ VersionsAsked(call.opts) # <<>>
    /\ TrimSpace(VersionAsked(call.opts)) # <<>>
    /\ TrimSpace(VersionAsked(call.opts)) \notin DOMAIN themes[call.name]
    /\ ~FallbackDisabled(call.opts)
    /\ \E u \in DOMAIN themes[call.name] :
          compareVersions(ret.m[1].Version, u) > 0
    /\ ReturnedLatest(call.name)

-----------------------------------------------------------------------------
\* C2: once Register(m) has succeeded, and until another Register uses m's
\* name and version, Get(m.Name, WithVersion(m.Version)) returns a manifest
\* equal to m.
C2_ExactRoundTrip ==
    \A key \in DOMAIN registered :
        (/\ call.op = "Get"
         /\ call.name = key[1]
         /\ call.opts = <<WithVersion(key[2])>>)
        => /\ ret.err = NoErr
           /\ Len(ret.m) = 1
           /\ SameManifest(ret.m[1], registered[key])

-----------------------------------------------------------------------------
\* The outcome of a Get call c with result r on table t, the version asked
\* for being `asked` and `has` telling whether a version is registered.
GetOutcome(c, r, t, asked, has(_)) ==
    IF TrimSpace(c.name) = <<>>
    THEN r.err = ErrNameRequired /\ r.m = <<>>
    ELSE IF ~(c.name \in DOMAIN t /\ DOMAIN t[c.name] # {})
    THEN r.err.kind = "theme not found" /\ r.m = <<>>
    ELSE IF /\ VersionsAsked(c.opts) # <<>>
            /\ asked # <<>>
            /\ ~has(asked)
            /\ FallbackDisabled(c.opts)
    THEN r.err.kind = "theme version not found" /\ r.m = <<>>
    ELSE r.err = NoErr /\ Len(r.m) = 1

\* C3, as stated: a Get fails with the name-required error for a blank name,
\* else with ErrThemeNotFound for a name without versions, else with
\* ErrVersionNotFound when the version that WithVersion was given is not
\* registered under the name and WithoutFallback was given; it succeeds in
\* every other case, and it never changes the registry.
C3_AsStated ==
    [][call'.op = "Get" =>
          /\ themes' = themes
          /\ LET asked == IF VersionsAsked(call'.opts) = <<>> THEN <<>>
                          ELSE VersionAsked(call'.opts)
                 has(v) == v \in DOMAIN themes[call'.name]
             IN  GetOutcome(call', ret', themes, asked, has)]_vars

\* C3, amended: the same, the version asked for being the string given to
\* WithVersion once trimmed, and none being asked for when that is empty.
C3_GetOutcomes ==
    [][call'.op = "Get" =>
          /\ themes' = themes
          /\ LET asked == IF VersionsAsked(call'.opts) = <<>> THEN <<>>
                          ELSE TrimSpace(VersionAsked(call'.opts))
                 has(v) == v \in DOMAIN themes[call'.name]
             IN  GetOutcome(call', ret', themes, asked, has)]_vars

\* A Get that failed with ErrVersionNotFound on a table that holds other
\* versions of the name.
C3_Witness ==
    /\ call.op = "Get"
    /\ HasVersions(call.name)
    /\ ret.err.kind = "theme version not found"
    /\ ret.err.arg = <<call.name, TrimSpace(VersionAsked(call.opts))>>

-----------------------------------------------------------------------------
\* The <<name, version>> pairs of table t.
Pairs(t) == UNION {{<<n, v>> : v \in DOMAIN t[n]} : n \in DOMAIN t}

\* C4: a successful Register(m) makes the entry of (m.Name, m.Version) a copy
\* of m and leaves every other entry as it was: no entry is added or dropped
\* besides that one.
C4_RegisterFrame ==
    [][(call'.op = "Register" /\ ret'.err = NoErr) =>
          LET m == call'.manifest[1]
              key == <<m.Name, m.Version>>
          IN  /\ Pairs(themes') = Pairs(themes) \cup {key}
              /\ SameManifest(themes'[m.Name][m.Version], m)
              /\ \A k \in Pairs(themes) \ {key} :
                    themes'[k[1]][k[2]] = themes[k[1]][k[2]]]_vars

\* A successful Register on a table that afterwards holds three manifests,
\* two of them versions of the name registered.
C4_Witness ==
    /\ call.op = "Register"
    /\ ret.err = NoErr
    /\ Cardinality(DOMAIN themes[call.manifest[1].Name]) = 2
    /\ NumEntries(themes) = 3

-----------------------------------------------------------------------------
\* C5: Register(nil) fails with the nil-manifest error, Register(m) of an m
\* that fails Validate fails with an error Validate(m) returns, and neither
\* changes the table.
C5_RegisterRejects ==
    [][(call'.op = "Register" /\ NoErr \notin Validate(call'.manifest)) =>
          /\ ret'.err # NoErr
          /\ ret'.err \in Validate(call'.manifest)
          /\ call'.manifest = <<>> => ret'.err = ErrManifestNil
          /\ call'.manifest # <<>> => ret'.err.kind = "ValidationError"
          /\ themes' = themes]_vars

\* A Register that was refused with three issues or more on a table that
\* holds manifests.
C5_Witness ==
    /\ call.op = "Register"
    /\ ret.err.kind = "ValidationError"
    /\ Len(ret.err.issues) >= 3
    /\ NumEntries(themes) >= 2

-----------------------------------------------------------------------------
\* The pointers the caller holds that a Get returned.
ReturnedPointers == {q \in DOMAIN held : held[q] = "returned"}

\* C6: a write the caller makes through a pointer it holds - a manifest it
\* has registered or a manifest a Get returned; to a map of the manifest, to
\* its variants map, to a map inside a variant or to a field - changes no
\* result of a later Get or List, and no manifest that another Get returned.
C6_CopyIsolation ==
    [][call'.op = "Mutate" =>
          /\ \A opts \in AliasOptLists :
                Get(TableAt(heap', themes'), <<"a">>, opts)
                    = Get(TableAt(heap, themes), <<"a">>, opts)
          /\ List(TableAt(heap', themes')) = List(TableAt(heap, themes))
          /\ \A q \in ReturnedPointers \ {call'.ptr} :
                ManifestAt(heap', q) = ManifestAt(heap, q)]_vars

\* The caller has written through a manifest it had registered and through
\* a manifest a Get had returned, it holds a manifest of another Get, and
\* the manifests written through no longer read as the registry's entry.
C6_Witness ==
    /\ call.op = "Mutate"
    /\ \E i, j \in 1..Len(mutations) :
          /\ mutations[i].from = "registered"
          /\ mutations[j].from = "returned"
          /\ mutations[i].ptr # mutations[j].ptr
          /\ \A k \in {i, j} :
                \A name \in DOMAIN themes :
                    \A version \in DOMAIN themes[name] :
                        ~SameManifest(ManifestAt(heap, mutations[k].ptr),
                                      ManifestAt(heap, themes[name][version]))
    /\ Cardinality(ReturnedPointers) >= 2
    /\ DOMAIN themes # {}

-----------------------------------------------------------------------------
\* The goroutine is reading the table, under the read lock.
Reading(self) == pc[self] \in {"versions", "version", "range"}

\* The goroutine is writing the table, under the lock.
Writing(self) == pc[self] \in {"ok", "make", "store", "Unlock"}

\* The call of the goroutine has returned with what some table of its window,
\* taken whole, gives: for a Get and a List the result, for a Register that
\* succeeds the entry.
ReturnedAtomically(self) ==
    LET c == call[self]
        r == ret[self]
    IN  IF c.op = "Get"
        THEN \E t \in window[self] : r \in Get(t, c.name, c.opts)
        ELSE IF c.op = "List"
        THEN \E t \in window[self] : r.refs \in List(t)
        ELSE IF r.err # NoErr
        THEN r.err \in (IF c.manifest = <<>> THEN {ErrManifestNil}
                        ELSE Validate(c.manifest))
        ELSE \E t \in window[self] :
                /\ c.manifest[1].Name \in DOMAIN t
                /\ c.manifest[1].Version \in DOMAIN t[c.manifest[1].Name]
                /\ t[c.manifest[1].Name][c.manifest[1].Version]
                      = copyManifest(c.manifest[1])

\* C7: whatever the interleaving, a goroutine that reads the table reads a
\* whole state, the table of the Registers stored so far and never an entry
\* half written; a call that has returned has returned what it would have
\* run alone at a point between its start and its return; and once no
\* Register is writing, every manifest that a Register stored is in the
\* table, none lost.
C7_Atomic ==
    /\ \A self \in Procs : Reading(self) => themes = lin
    /\ \A self \in Procs : pc[self] = "return" => ReturnedAtomically(self)
    /\ (\A self \in Procs : ~Writing(self)) => themes = lin
    /\ \A self \in Procs :
          (pc[self] = "return" /\ call[self].op = "Register"
              /\ ret[self].err = NoErr) =>
            /\ call[self].manifest[1].Name \in DOMAIN themes
            /\ call[self].manifest[1].Version
                  \in DOMAIN themes[call[self].manifest[1].Name]

\* Two Registers of one name, of two versions, have both returned; one of
\* them began before the other stored and stored after it; both manifests
\* are in the table.
C7_Witness ==
    /\ \A self \in Procs :
          /\ pc[self] = "return"
          /\ call[self].op = "Register"
          /\ ret[self].err = NoErr
          /\ call[self].manifest[1].Name = <<"a">>
          /\ call[self].manifest[1].Version \in DOMAIN themes[<<"a">>]
    /\ call[1].manifest[1].Version # call[2].manifest[1].Version
    /\ \E self \in Procs : Cardinality(window[self]) = 3

-----------------------------------------------------------------------------
\* C8: List returns one ref per stored (name, version) pair, with the stored
\* description, by name ascending and, within a name, by version descending.
C8_ListSorted ==
    call.op = "List" =>
        LET refs == ret.refs IN
        /\ Len(refs) = Cardinality(Pairs(themes))
        /\ \A k \in Pairs(themes) :
              \E i \in 1..Len(refs) :
                  /\ refs[i].Name = k[1]
                  /\ refs[i].Version = k[2]
                  /\ refs[i].Description = themes[k[1]][k[2]].Description
        /\ \A i \in 1..Len(refs), j \in 1..Len(refs) :
              i < j =>
                  /\ ~StrLess(refs[j].Name, refs[i].Name)
                  /\ refs[i].Name = refs[j].Name =>
                        compareVersions(refs[i].Version, refs[j].Version) >= 0

\* A List of three manifests, two of one name with versions that do not
\* compare equal and one of another name.
C8_Witness ==
    /\ call.op = "List"
    /\ Len(ret.refs) = 3
    /\ ret.refs[1].Name = ret.refs[2].Name
    /\ compareVersions(ret.refs[1].Version, ret.refs[2].Version) > 0
    /\ ret.refs[3].Name # ret.refs[1].Name

-----------------------------------------------------------------------------
\* C9: the Selection of a successful Select names the theme of the manifest
\* it carries.
C9_ThemeIsManifestName ==
    (call.op = "Select" /\ ret.err = NoErr) =>
        ret.sel[1].Theme = ret.sel[1].Manifest[1].Name

-----------------------------------------------------------------------------
\* The name a Select call looks up first: the theme name it was given,
\* trimmed, or the default theme when that is empty.
NameSelected(c) ==
    IF TrimSpace(c.themeName) = <<>>
    THEN c.selector.DefaultTheme
    ELSE TrimSpace(c.themeName)

\* A Get of the name with the options fails on the table as it is.
LookupFails(name, opts) ==
    \/ TrimSpace(name) = <<>>
    \/ ~HasVersions(name)
    \/ /\ querySettings(opts).version # <<>>
       /\ querySettings(opts).version \notin DOMAIN themes[name]
       /\ ~querySettings(opts).allowFallback

\* C10: a Select with a registry looks up the name selected; it makes a
\* second lookup, of the default theme and with the same options, exactly when
\* the first lookup fails and the default theme is non-empty and is not the
\* name selected; it then succeeds with the default theme's manifest if the
\* second lookup succeeds.
C10_DefaultThemeRetry ==
    (call.op = "Select" /\ call.selector.Registry) =>
        LET name == NameSelected(call)
            default == call.selector.DefaultTheme
            lookups == ret.lookups
            retry == /\ LookupFails(name, call.opts)
                     /\ default # <<>>
                     /\ default # name
        IN  /\ Len(lookups) = IF retry THEN 2 ELSE 1
            /\ lookups[1].name = name
            /\ lookups[1].opts = call.opts
            /\ (lookups[1].err # NoErr) <=> LookupFails(name, call.opts)
            /\ retry =>
                  /\ lookups[2].name = default
                  /\ lookups[2].opts = call.opts
                  /\ (lookups[2].err # NoErr) <=> LookupFails(default, call.opts)
                  /\ ~LookupFails(default, call.opts) =>
                        /\ ret.err = NoErr
                        /\ ret.sel[1].Manifest[1].Name = default
            /\ (~retry /\ ~LookupFails(name, call.opts)) =>
                  /\ ret.err = NoErr
                  /\ ret.sel[1].Manifest[1].Name = name

\* A Select whose first lookup failed for a missing version and whose retry
\* with the default theme succeeded.
C10_Witness ==
    /\ call.op = "Select"
    /\ call.selector.Registry
    /\ Len(ret.lookups) = 2
    /\ ret.lookups[1].err.kind = "theme version not found"
    /\ ret.err = NoErr
    /\ ret.sel[1].Manifest[1].Name = call.selector.DefaultTheme

-----------------------------------------------------------------------------
\* What a selection resolves when only the base of its manifest counts.
BaseOnly(sel) ==
    LET m == sel.Manifest[1]
    IN  /\ SameMap(SelectionTokens(sel), m.Tokens)
        /\ \A key \in Keys(m.Templates) \cup Keys(m.Assets.Files) \cup {<<"z">>} :
              /\ Template(sel, key, <<"f", "b">>)
                    = IF Lookup(m.Templates, key) # <<>>
                      THEN Lookup(m.Templates, key)
                      ELSE <<"f", "b">>
              /\ Asset(sel, key)
                    = IF Lookup(m.Assets.Files, key) # <<>>
                      THEN Resolved(joinPath(TrimSuffix(m.Assets.Prefix, "/"),
                                             Lookup(m.Assets.Files, key)),
                                    TRUE)
                      ELSE Resolved(<<>>, FALSE)

\* C11: Select looks up the default theme when the theme name it is given is
\* blank, and with that theme registered and no option it succeeds; the
\* Selection has the default variant when the variant given is empty and the
\* variant given otherwise, and a Selection whose variant the manifest does
\* not define resolves tokens, templates and assets from the base only.
C11_SelectDefaults ==
    (call.op = "Select" /\ call.selector.Registry) =>
        LET s == call.selector
            blank == TrimSpace(call.themeName) = <<>>
        IN  /\ blank => ret.lookups[1].name = s.DefaultTheme
            /\ (blank /\ HasVersions(s.DefaultTheme) /\ call.opts = <<>>) =>
                  /\ ret.err = NoErr
                  /\ ret.sel[1].Theme = s.DefaultTheme
            /\ ret.err = NoErr =>
                  /\ ret.sel[1].Variant = IF call.variant = <<>>
                                          THEN s.DefaultVariant
                                          ELSE call.variant
                  /\ ret.sel[1].Variant
                        \notin Keys(ret.sel[1].Manifest[1].Variants) =>
                            BaseOnly(ret.sel[1])

\* Select("", "") has returned the default theme with the default variant,
\* a variant that the manifest of the theme does not define.
C11_Witness ==
    /\ call.op = "Select"
    /\ call.themeName = <<>>
    /\ call.variant = <<>>
    /\ ret.err = NoErr
    /\ ret.sel[1].Theme = <<"b">>
    /\ ret.sel[1].Variant = <<"x">>
    /\ ret.sel[1].Manifest[1].Name = <<"b">>

-----------------------------------------------------------------------------
\* C12: with no registry Select makes no lookup and fails with the error of
\* the missing registry; with one, it fails exactly when the last lookup it
\* makes fails, and then it returns no Selection and a "resolve theme" error
\* that wraps the error of that lookup, a theme or a version not found or a
\* name required; and a Select, failed or not, leaves the table as it was.
C12_SelectFailures ==
    [][call'.op = "Select" =>
          LET lookups == ret'.lookups
              last == lookups[Len(lookups)]
          IN  /\ themes' = themes
              /\ ~call'.selector.Registry =>
                    /\ ret'.err = ErrRegistryNil
                    /\ ret'.sel = <<>>
                    /\ lookups = <<>>
              /\ call'.selector.Registry =>
                    /\ ret'.err # NoErr <=> LookupFails(last.name, call'.opts)
                    /\ ret'.err # NoErr =>
                          /\ ret'.sel = <<>>
                          /\ ret'.err.kind = "resolve theme"
                          /\ ret'.err.wraps = <<last.err>>
                          /\ last.err \in {ErrNameRequired,
                                            ErrThemeNotFound(last.name),
                                            ErrVersionNotFound(last.name,
                                                querySettings(call'.opts).version)}
                          /\ last.err.kind = "theme version not found" <=>
                                HasVersions(last.name)]_vars

\* A Select on a table with manifests has failed after two lookups, the
\* first for a theme not found and the second for a version not found, and
\* its error wraps the second.
C12_Witness ==
    /\ call.op = "Select"
    /\ DOMAIN themes # {}
    /\ Len(ret.lookups) = 2
    /\ ret.lookups[1].err.kind = "theme not found"
    /\ ret.sel = <<>>
    /\ ret.err.kind = "resolve theme"
    /\ ret.err.wraps[1].kind = "theme version not found"

-----------------------------------------------------------------------------
\* C13 as stated: Template(key, fallback) returns fallback for a blank key;
\* for any other key and a manifest that is not nil it returns the template
\* that the variant of the selection's name has for the key, if the manifest
\* has a variant of that name and the template is not empty, otherwise the
\* base template if that is not empty, otherwise fallback.  A manifest whose
\* variant has the empty name, selected with the empty variant, violates it.
C13_AsStated ==
    call.op = "Template" =>
        LET s == call.selection
            key == TrimSpace(call.key)
            ofVariant ==
                IF s.Variant \in Keys(s.Manifest[1].Variants)
                THEN Lookup(s.Manifest[1].Variants.kv[s.Variant].Templates, key)
                ELSE <<>>
            ofBase == Lookup(s.Manifest[1].Templates, key)
        IN  IF key = <<>> THEN ret.value = call.fallback
            ELSE s.Manifest # <<>> =>
                    ret.value = IF ofVariant # <<>> THEN ofVariant
                                ELSE IF ofBase # <<>> THEN ofBase
                                ELSE call.fallback

\* C13: Template(key, fallback) returns fallback for a blank key; for any
\* other key and a manifest that is not nil it returns the template that the
\* variant of the selection's name has for the key, if that name is not empty,
\* the manifest has a variant of that name and the template is not empty,
\* otherwise the base template if that is not empty, otherwise fallback.
C13_TemplatePrecedence ==
    call.op = "Template" =>
        LET s == call.selection
            key == TrimSpace(call.key)
            ofVariant ==
                IF s.Variant # <<>> /\ s.Variant \in Keys(s.Manifest[1].Variants)
                THEN Lookup(s.Manifest[1].Variants.kv[s.Variant].Templates, key)
                ELSE <<>>
            ofBase == Lookup(s.Manifest[1].Templates, key)
        IN  IF key = <<>> THEN ret.value = call.fallback
            ELSE s.Manifest # <<>> =>
                    ret.value = IF ofVariant # <<>> THEN ofVariant
                                ELSE IF ofBase # <<>> THEN ofBase
                                ELSE call.fallback

\* Template f asked of variant d, which has it, as the base has: the
\* variant's is returned.
C13_Witness ==
    /\ call.op = "Template"
    /\ call.key = <<"f", " ">>
    /\ call.selection.Variant = <<"d">>
    /\ call.selection.Manifest # <<>>
    /\ Lookup(call.selection.Manifest[1].Templates, <<"f">>) = <<"b">>
    /\ <<"d">> \in Keys(call.selection.Manifest[1].Variants)
    /\ ret.value = <<"d">>

-----------------------------------------------------------------------------
C15_BasePathBasePrefix ==
    (/\ call.op = "Asset"
     /\ call.selection.Manifest # <<>>
     /\ call.selection.Variant \in Keys(call.selection.Manifest[1].Variants)) =>
        LET s == call.selection
            key == TrimSpace(call.key)
            base == s.Manifest[1].Assets
            ofVariant == s.Manifest[1].Variants.kv[s.Variant].Assets
        IN  (/\ TrimSpace(ofVariant.Prefix) # <<>>
             /\ key \in Keys(base.Files)
             /\ Lookup(base.Files, key) # <<>>
             /\ key \notin Keys(ofVariant.Files)) =>
                ret.value =
                    Resolved(joinPath(TrimSuffix(base.Prefix, "/"),
                                      Lookup(base.Files, key)), TRUE)

\* C16: Asset(key) finds the asset exactly when the manifest is not nil, the
\* trimmed key is not empty, and the files of the selection's variant or the
\* base files have a path for the key that is not empty; the variant's path
\* is the one joined when both have one; the string is empty when nothing is
\* found; and AssetURL(key) of RendererTheme is the string of Asset(key),
\* empty for a key that is not found.
C16_Found ==
    LET s == call.selection
        HasPath(key) ==
            /\ s.Manifest # <<>>
            /\ TrimSpace(key) # <<>>
            /\ \/ Lookup(VariantOf(s.Manifest[1], s.Variant).Assets.Files,
                          TrimSpace(key)) # <<>>
               \/ Lookup(s.Manifest[1].Assets.Files, TrimSpace(key)) # <<>>
    IN  /\ call.op = "Asset" =>
            /\ ret.value.found = HasPath(call.key)
            /\ ~ret.value.found => ret.value.url = <<>>
            /\ (/\ ret.value.found
                /\ Lookup(VariantOf(s.Manifest[1], s.Variant).Assets.Files,
                          TrimSpace(call.key)) # <<>>) =>
                    ret.value.url =
                        joinPath(TrimSuffix(
                                   IF TrimSpace(VariantOf(s.Manifest[1],
                                                 s.Variant).Assets.Prefix) # <<>>
                                   THEN VariantOf(s.Manifest[1],
                                                  s.Variant).Assets.Prefix
                                   ELSE s.Manifest[1].Assets.Prefix, "/"),
                                 Lookup(VariantOf(s.Manifest[1],
                                                  s.Variant).Assets.Files,
                                        TrimSpace(call.key)))
        /\ call.op = "RendererTheme" =>
            \A key \in ResolveKeys :
                /\ AssetURL(ret.value, key) = Asset(s, key).url
                /\ ~HasPath(key) => AssetURL(ret.value, key) = <<>>

\* File l is in the base files and in the variant's: the variant's is found;
\* file z is in neither, and AssetURL("z") is empty while AssetURL("l") is
\* not.
C16_Witness ==
    \/ /\ call.op = "Asset"
       /\ call.key = <<" ", "l">>
       /\ call.selection.Variant = <<"d">>
       /\ call.selection.Manifest # <<>>
       /\ Lookup(call.selection.Manifest[1].Assets.Files, <<"l">>)
            = <<"l", ".", "p">>
       /\ ret.value = Resolved(<<"d", ".", "p">>, TRUE)
    \/ /\ call.op = "RendererTheme"
       /\ call.selection.Manifest # <<>>
       /\ AssetURL(ret.value, <<"z">>) = <<>>
       /\ AssetURL(ret.value, <<"l">>) # <<>>

-----------------------------------------------------------------------------
\* C17: for a prefix that contains "://", joinPath(prefix, p) is the prefix
\* without one trailing "/", then "/", then p without one leading "/" and
\* otherwise as it is.  A path that begins with two slashes violates it.
C17_JoinWithScheme ==
    (call.op = "joinPath" /\ ContainsScheme(call.prefix)) =>
        ret.value = TrimSuffix(call.prefix, "/") \o <<"/">>
                        \o TrimPrefix(call.p, "/")

-----------------------------------------------------------------------------
\* C19: the keys of CSSVariables(prefix, v) are the keys p + k, k a key of
\* TokensForVariant(v), with p = "--" for the empty prefix and p the prefix
\* given otherwise; there are as many of them as tokens; and the value at
\* p + k is the token's value at k.
C19_OneEntryPerToken ==
    call.op = "CSSVariables" =>
        LET p == IF call.prefix = <<>> THEN <<"-", "-">> ELSE call.prefix
            merged == TokensForVariant(call.manifest[1], call.variant)
        IN  /\ ~ret.value.isNil
            /\ Keys(ret.value) = {p \o k : k \in Keys(merged)}
            /\ Cardinality(Keys(ret.value)) = Cardinality(Keys(merged))
            /\ \A k \in Keys(merged) : ret.value.kv[p \o k] = merged.kv[k]

\* Three merged tokens, p of them with the variant's value, under the
\* default prefix and under prefix "x-".
C19_Witness ==
    /\ call.op = "CSSVariables"
    /\ call.variant = <<"d">>
    /\ Cardinality(Keys(ret.value)) = 3
    /\ \/ /\ call.prefix = <<>>
          /\ Lookup(ret.value, <<"-", "-", "p">>) = <<"k">>
       \/ /\ call.prefix = <<"x", "-">>
          /\ Lookup(ret.value, <<"x", "-", "p">>) = <<"k">>

-----------------------------------------------------------------------------
\* C20: Validate on a manifest that is not nil returns nil exactly when
\* nothing is blank: name, version, the keys and the values of tokens, fonts,
\* templates and assets.files, the names of the variants, the keys and the
\* values of each variant's tokens, templates and assets.files.  Otherwise it
\* returns one ValidationError with one issue for each thing that is blank,
\* as many issues as blank things.  On nil it returns another error, which is
\* not a ValidationError.
C20_ValidateReportsAll ==
    call.op = "Validate" =>
        IF call.manifest = <<>>
        THEN ret.err # NoErr /\ ret.err.kind # "ValidationError"
        ELSE
        LET m == call.manifest[1]
            maps ==
                {<<<<>>, "tokens", m.Tokens>>, <<<<>>, "fonts", m.Fonts>>,
                 <<<<>>, "templates", m.Templates>>,
                 <<<<>>, "assets.files", m.Assets.Files>>}
                \cup UNION {{<<<<n>>, "tokens", m.Variants.kv[n].Tokens>>,
                             <<<<n>>, "templates", m.Variants.kv[n].Templates>>,
                             <<<<n>>, "assets.files",
                               m.Variants.kv[n].Assets.Files>>} :
                            n \in Keys(m.Variants)}
            blankKeys ==
                UNION {{<<x[1], x[2], k>> :
                            k \in {k \in Keys(x[3]) : TrimSpace(k) = <<>>}} :
                        x \in maps}
            blankValues ==
                UNION {{<<x[1], x[2], k>> :
                            k \in {k \in Keys(x[3]) :
                                      TrimSpace(x[3].kv[k]) = <<>>}} :
                        x \in maps}
            blankNames == {n \in Keys(m.Variants) : TrimSpace(n) = <<>>}
            blank ==
                (IF TrimSpace(m.Name) = <<>> THEN 1 ELSE 0)
                + (IF TrimSpace(m.Version) = <<>> THEN 1 ELSE 0)
                + Cardinality(blankKeys) + Cardinality(blankValues)
                + Cardinality(blankNames)
            Reported(issue) ==
                \E i \in 1..Len(ret.err.issues) : ret.err.issues[i] = issue
        IN  /\ ret.err = NoErr <=> blank = 0
            /\ blank > 0 =>
                /\ ret.err.kind = "ValidationError"
                /\ Len(ret.err.issues) = blank
                /\ TrimSpace(m.Name) = <<>> =>
                        Reported(Issue("name is required", <<>>, "", <<>>))
                /\ TrimSpace(m.Version) = <<>> =>
                        Reported(Issue("version is required", <<>>, "", <<>>))
                /\ \A x \in blankKeys :
                        Reported(Issue("has empty key", x[1], x[2], <<>>))
                /\ \A x \in blankValues :
                        Reported(Issue("entry is empty", x[1], x[2], x[3]))
                /\ \A n \in blankNames :
                        Reported(Issue("variant name cannot be empty", <<n>>,
                                       "", <<>>))

\* A manifest with a blank name, a blank version and a token whose key and
\* value are empty: four issues in one error.
C20_Witness ==
    /\ call.op = "Validate"
    /\ call.manifest # <<>>
    /\ call.manifest[1].Name = <<>>
    /\ TrimSpace(call.manifest[1].Version) = <<>>
    /\ <<>> \in Keys(call.manifest[1].Tokens)
    /\ Keys(call.manifest[1].Fonts) = {}
    /\ Keys(call.manifest[1].Variants) = {}
    /\ ret.err.kind = "ValidationError"
    /\ Len(ret.err.issues) = 4

-----------------------------------------------------------------------------
\* C18 as stated: TokensForVariant(v) returns a map that was not there before
\* the call, with the base tokens and over them the tokens of variant v when
\* the manifest has a variant v with tokens - the variant's value for a key
\* of both, the keys of either - and with the base tokens otherwise; the call
\* leaves the manifest as it was, and so does a write to a map that was
\* returned.  A manifest whose variant has the empty name, asked for the
\* tokens of variant "", violates it.
C18_AsStated ==
    [][/\ call'.op = "TokensForVariant" =>
            LET m == ManifestAt(heap, call'.ptr)
                v == call'.variant
                over == IF v \in Keys(m.Variants)
                        THEN m.Variants.kv[v].Tokens.kv
                        ELSE EmptyFn
            IN  /\ ret'.ptr \notin 0..Len(heap)
                /\ DOMAIN heap'[ret'.ptr].kv = Keys(m.Tokens) \cup DOMAIN over
                /\ \A k \in DOMAIN over : heap'[ret'.ptr].kv[k] = over[k]
                /\ \A k \in Keys(m.Tokens) \ DOMAIN over :
                        heap'[ret'.ptr].kv[k] = m.Tokens.kv[k]
                /\ ManifestAt(heap', call'.ptr) = m
       /\ call'.op = "Mutate" =>
            \A q \in DOMAIN held \ TokenMaps :
                ManifestAt(heap', q) = ManifestAt(heap, q)]_vars

\* C18: TokensForVariant(v) returns a map that was not there before the
\* call, with the base tokens and over them the tokens of variant v when v is
\* not empty and the manifest has a variant v with tokens - the variant's
\* value for a key of both, the keys of either - and with the base tokens
\* otherwise; the call leaves the manifest as it was, and so does a write to
\* a map that was returned.
C18_FreshMergedTokens ==
    [][/\ call'.op = "TokensForVariant" =>
            LET m == ManifestAt(heap, call'.ptr)
                v == call'.variant
                over == IF v # <<>> /\ v \in Keys(m.Variants)
                        THEN m.Variants.kv[v].Tokens.kv
                        ELSE EmptyFn
            IN  /\ ret'.ptr \notin 0..Len(heap)
                /\ DOMAIN heap'[ret'.ptr].kv = Keys(m.Tokens) \cup DOMAIN over
                /\ \A k \in DOMAIN over : heap'[ret'.ptr].kv[k] = over[k]
                /\ \A k \in Keys(m.Tokens) \ DOMAIN over :
                        heap'[ret'.ptr].kv[k] = m.Tokens.kv[k]
                /\ ManifestAt(heap', call'.ptr) = m
       /\ call'.op = "Mutate" =>
            \A q \in DOMAIN held \ TokenMaps :
                ManifestAt(heap', q) = ManifestAt(heap, q)]_vars

\* The caller has two maps of the tokens of variant d, with token n of the
\* variant and token q of the base, has written to them, and they differ;
\* the manifest has its tokens.
C18_Witness ==
    /\ call.op = "Mutate"
    /\ Cardinality(TokenMaps) = 2
    /\ Len(mutations) = 2
    /\ \E a, b \in TokenMaps :
          /\ <<"n">> \in DOMAIN heap[a].kv
          /\ <<"q">> \in DOMAIN heap[a].kv
          /\ <<"p">> \in DOMAIN heap[a].kv
          /\ heap[a].kv[<<"p">>] = <<"z">>
          /\ heap[b].kv # heap[a].kv
    /\ \E q \in DOMAIN held \ TokenMaps :
          /\ Lookup(ManifestAt(heap, q).Tokens, <<"p">>) = <<"b">>
          /\ Lookup(VariantOf(ManifestAt(heap, q), <<"d">>).Tokens, <<"p">>)
                = <<"k">>

-----------------------------------------------------------------------------
\* C21: on a selection whose manifest is nil, whatever its theme and its
\* variant, Tokens() and CSSVariables(p) return an empty map, Template(k, f)
\* returns f, Partials(m) returns a map with the entries of m, Asset(k)
\* returns ("", false), and the AssetURL of RendererTheme returns "" for
\* every key; none of them fails.
C21_NilManifestDefaults ==
    (/\ call.op \in {"Tokens", "Selection.CSSVariables", "Template",
                     "Partials", "Asset", "RendererTheme"}
     /\ call.selection.Manifest = <<>>) =>
        /\ ret.err = NoErr
        /\ call.op \in {"Tokens", "Selection.CSSVariables"} =>
                ret.value = EmptyMap
        /\ call.op = "Template" => ret.value = call.fallback
        /\ call.op = "Partials" =>
                ~ret.value.isNil /\ ret.value.kv = call.fallbacks.kv
        /\ call.op = "Asset" => ret.value = Resolved(<<>>, FALSE)
        /\ call.op = "RendererTheme" =>
                /\ \A key \in ResolveKeys : AssetURL(ret.value, key) = <<>>
                /\ ret.value.Tokens = EmptyMap
                /\ ret.value.CSSVars = EmptyMap
                /\ ret.value.Partials.kv = call.fallbacks.kv

\* Partials of three fallbacks on a selection of theme b, variant d and no
\* manifest: the three fallbacks, the empty one too.
C21_Witness ==
    /\ call.op = "Partials"
    /\ call.selection = Selection(<<"b">>, <<"d">>, <<>>)
    /\ Cardinality(Keys(ret.value)) = 3
    /\ Lookup(ret.value, <<"f">>) = <<"f", "b">>

-----------------------------------------------------------------------------
\* C22: a call of Tokens, CSSVariables, Template, Partials, Asset,
\* RendererTheme or Snapshot leaves the manifest of the selection as it was,
\* its fields and every map it reaches, and so the Snapshot of every
\* selection of it after the call is the Snapshot before the call.
C22_AccessorsReadOnly ==
    [][call'.op \in {"Tokens", "CSSVariables", "Template", "Partials",
                     "Asset", "RendererTheme", "Snapshot"} =>
          /\ held' = held
          /\ \A q \in DOMAIN held :
                /\ heap'[q] = heap[q]
                /\ ManifestAt(heap', q) = ManifestAt(heap, q)
          /\ \A s \in SelectionsAt :
                Snapshot(SelectionAt(heap', s)) = Snapshot(SelectionAt(heap, s))
      ]_vars

\* A Snapshot of variant d has returned token p of the variant and token q of
\* the base, and the manifest has its own token p.
C22_Witness ==
    /\ call.op = "Snapshot"
    /\ call.selection.Variant = <<"d">>
    /\ call.selection.Manifest # 0
    /\ Lookup(ret.value.Tokens, <<"p">>) = <<"k">>
    /\ Lookup(ret.value.Tokens, <<"q">>) = <<"c">>
    /\ Lookup(ManifestAt(heap, call.selection.Manifest).Tokens, <<"p">>)
            = <<"b">>

-----------------------------------------------------------------------------
-----------------------------------------------------------------------------
\* C24: Snapshot().AssetPrefix is the asset prefix of the selection's variant
\* when that prefix is not blank, otherwise the base asset prefix, without
\* one trailing "/"; it is the base prefix for a variant that the manifest
\* does not have and for a variant with no prefix.
C24_SnapshotAssetPrefix ==
    (call.op = "Snapshot" /\ call.selection.Manifest # <<>>) =>
        LET s == call.selection
            m == s.Manifest[1]
            ofVariant == IF s.Variant \in Keys(m.Variants)
                         THEN m.Variants.kv[s.Variant].Assets.Prefix
                         ELSE <<>>
        IN  ret.value.AssetPrefix =
                TrimSuffix(IF TrimSpace(ofVariant) # <<>>
                           THEN ofVariant ELSE m.Assets.Prefix, "/")

\* The snapshot of variant d with prefix "c://h/" over base prefix "/s" has
\* prefix "c://h".
C24_Witness ==
    /\ call.op = "Snapshot"
    /\ call.selection.Variant = <<"d">>
    /\ call.selection.Manifest # <<>>
    /\ call.selection.Manifest[1].Assets.Prefix = <<"/", "s">>
    /\ VariantOf(call.selection.Manifest[1], <<"d">>).Assets.Prefix
            = <<"c", ":", "/", "/", "h", "/">>
    /\ ret.value.AssetPrefix = <<"c", ":", "/", "/", "h">>

-----------------------------------------------------------------------------
\* C25 as stated: compareVersions(a, b) takes one leading "v" off each,
\* splits at the dots, and compares segment by segment from the left, a
\* segment of digits as the integer it spells, any other segment and a
\* segment that is missing as 0.  "1.0.1-rc1" against "1.0.0" violates it: the
\* third segment is read as 1.
C25_AsStated ==
    call.op = "compareVersions" =>
        LET A == Split(TrimPrefix(call.a, "v"), ".")
            B == Split(TrimPrefix(call.b, "v"), ".")
            n == IF Len(A) > Len(B) THEN Len(A) ELSE Len(B)
            Segment(x) == IF x # <<>> /\ \A i \in 1..Len(x) : IsDigit(x[i])
                          THEN DigitRun(x, 0) ELSE 0
            At(P, i) == IF i <= Len(P) THEN Segment(P[i]) ELSE 0
            Before(P, Q) ==
                \E i \in 1..n :
                    /\ At(P, i) < At(Q, i)
                    /\ \A j \in 1..(i - 1) : At(P, j) = At(Q, j)
        IN  /\ ret.value \in {-1, 0, 1}
            /\ ret.value = 1 <=> Before(B, A)
            /\ ret.value = -1 <=> Before(A, B)

\* C25: compareVersions(a, b) takes one leading "v" off each, splits at the
\* dots, and compares segment by segment from the left, a segment as the
\* integer that its beginning spells - spaces, a sign, digits - and as 0 when
\* it begins with no integer, a segment that is missing as 0.  So "1.1.0" is
\* after "1.0.0", "v2.0.0" after "1.9.9", and "1.0" and "1.0.0-rc1" are equal
\* to "1.0.0".
C25_SegmentWise ==
    call.op = "compareVersions" =>
        LET A == Split(TrimPrefix(call.a, "v"), ".")
            B == Split(TrimPrefix(call.b, "v"), ".")
            n == IF Len(A) > Len(B) THEN Len(A) ELSE Len(B)
            Segment(x) == ScanInt(x)
            At(P, i) == IF i <= Len(P) THEN Segment(P[i]) ELSE 0
            Before(P, Q) ==
                \E i \in 1..n :
                    /\ At(P, i) < At(Q, i)
                    /\ \A j \in 1..(i - 1) : At(P, j) = At(Q, j)
        IN  /\ ret.value \in {-1, 0, 1}
            /\ ret.value = 1 <=> Before(B, A)
            /\ ret.value = -1 <=> Before(A, B)
            /\ (call.a = <<"1", ".", "1", ".", "0">> /\ call.b = <<"1", ".", "0", ".", "0">>) => ret.value = 1
            /\ (call.a = <<"v", "2", ".", "0", ".", "0">> /\ call.b = <<"1", ".", "9", ".", "9">>) => ret.value = 1
            /\ (call.a = <<"1", ".", "0">> /\ call.b = <<"1", ".", "0", ".", "0">>) => ret.value = 0
            /\ (call.a = <<"1", ".", "0", ".", "0", "-", "r", "c", "1">> /\ call.b = <<"1", ".", "0", ".", "0">>) => ret.value = 0

\* "v2.0.0" compared with "1.9.9" is 1.
C25_Witness ==
    /\ call.op = "compareVersions"
    /\ call.a = <<"v", "2", ".", "0", ".", "0">>
    /\ call.b = <<"1", ".", "9", ".", "9">>
    /\ ret.value = 1

-----------------------------------------------------------------------------
\* C26: the table is well formed after any sequence of Register, Get and List
\* calls: every stored manifest passes Validate and sits under exactly its own
\* Name and Version, every name in the table has at least one version, and so
\* no Get on a name that is in the table answers "theme not found".
C26_WellFormed ==
    /\ \A name \in DOMAIN themes :
            /\ DOMAIN themes[name] # {}
            /\ \A version \in DOMAIN themes[name] :
                    /\ themes[name][version].Name = name
                    /\ themes[name][version].Version = version
                    /\ Validate(<<themes[name][version]>>) = {NoErr}
            /\ \A opts \in OptLists : \A r \in Get(themes, name, opts) :
                    r.err.kind # ErrThemeNotFound(name).kind
    /\ (call.op = "Get" /\ call.name \in DOMAIN themes)
            => ret.err.kind # ErrThemeNotFound(call.name).kind

\* A table of two names, one of them with two versions, right after a Register
\* that failed.
C26_Witness ==
    /\ call.op = "Register"
    /\ ret.err # NoErr
    /\ Cardinality(DOMAIN themes) = 2
    /\ \E name \in DOMAIN themes : Cardinality(DOMAIN themes[name]) >= 2
    /\ \E name \in DOMAIN themes : <<"v", "2">> \in DOMAIN themes[name]

-----------------------------------------------------------------------------
\* The versions Get(name) with no options can return on table t.
LatestOf(t, name) ==
    {r.m[1].Version : r \in {g \in Get(t, name, <<>>) : g.err = NoErr}}

\* C27: the registry only grows. No step removes a (name, version) entry; once
\* a Register of a manifest has succeeded, every Get of its name with no
\* options succeeds and every List holds its name and version; and the version
\* Get(name) returns with no options never compares lower than one it could
\* return before, nor lower than a version registered under the name.
C27_OnlyGrows ==
    /\ [][/\ Pairs(themes) \subseteq Pairs(themes')
          /\ themes' # themes =>
                \A name \in DOMAIN themes :
                    \A before \in LatestOf(themes, name) :
                        \A r \in Get(themes', name, <<>>) :
                            /\ r.err = NoErr
                            /\ compareVersions(r.m[1].Version, before) >= 0]_vars
    /\ [](/\ \A name \in DOMAIN themes :
                \A before \in LatestOf(themes, name) :
                    \A r \in Get(themes, name, <<>>) :
                        /\ r.err = NoErr
                        /\ compareVersions(r.m[1].Version, before) >= 0
          /\ \A key \in DOMAIN registered :
                /\ key \in Pairs(themes)
                /\ \A r \in Get(themes, key[1], <<>>) :
                        /\ r.err = NoErr
                        /\ compareVersions(r.m[1].Version, key[2]) >= 0
                /\ (call.op = "Get" /\ call.name = key[1] /\ call.opts = <<>>) =>
                        /\ ret.err = NoErr
                        /\ compareVersions(ret.m[1].Version, key[2]) >= 0
                /\ call.op = "List" =>
                        \E i \in 1..Len(ret.refs) :
                            /\ ret.refs[i].Name = key[1]
                            /\ ret.refs[i].Version = key[2]
          /\ \A refs \in List(themes) :
                \A key \in DOMAIN registered :
                    \E i \in 1..Len(refs) :
                        refs[i].Name = key[1] /\ refs[i].Version = key[2])

\* A Get with no options of a name that has three registered versions, two of
\* them comparing equal, returning the one that compares highest.
C27_Witness ==
    /\ call.op = "Get"
    /\ call.opts = <<>>
    /\ call.name \in DOMAIN themes
    /\ {<<call.name, v>> : v \in {<<"1", ".", "0">>, <<"1", ".", "0", ".", "0">>,
                                   <<"v", "2">>}} \subseteq DOMAIN registered
    /\ ret.err = NoErr
    /\ ret.m[1].Version = <<"v", "2">>

-----------------------------------------------------------------------------
\* C28: Get and List are functions of the table's contents. Whatever the table
\* holds, versions of one name that compare equal included, Get(name) with no
\* version option has one possible result and List() one possible sequence,
\* and a Get or List that was made returned it.
C28_Deterministic ==
    /\ \A name \in QueryNames : Cardinality(Get(themes, name, <<>>)) = 1
    /\ Cardinality(List(themes)) = 1
    /\ (call.op = "Get" /\ call.opts = <<>>) =>
            Get(themes, call.name, <<>>) = {ret}
    /\ call.op = "List" => List(themes) = {ret.refs}

-----------------------------------------------------------------------------
\* C29: Select is atomic with respect to Registers made while it runs: what
\* it returns, error or Selection, is what a Select run without interruption
\* returns on one of the tables the registry held between its start and its
\* return.
C29_SelectAtomic ==
    pc = "done" =>
        \E t \in window :
            \E r \in Select(call.selector, t, call.themeName, call.variant,
                             call.opts) :
                r.err = ret.err /\ r.sel = ret.sel

=============================================================================
